---- MODULE Spec2Model ----
(***************************************************************************)
(* Model of the calibration / evaluation core of aiqtoolkit:               *)
(*   src/src/aiq/reasoning/dspy_parameter_calibration.py                   *)
(*   src/src/aiq/eval/dspy_academic_benchmarks.py                          *)
(*                                                                         *)
(* Numbers.  Float-typed parameters (temperature, learning_rate,           *)
(* reasoning_weight, tolerance) are held as integer multiples of 1e-8, so  *)
(* 1.0 is 100000000 and 1e-6 is 100.  Int-typed parameters (max_tokens,    *)
(* max_rounds, max_examples) are held in units.  NaN is not represented.   *)
(***************************************************************************)
EXTENDS Integers, Sequences, FiniteSets, TLC

(***************************************************************************)
(* DSPyParameterBounds: the static table                                   *)
(***************************************************************************)
temperature_min == 10000000
temperature_max == 200000000
temperature_default == 70000000

max_tokens_min == 100
max_tokens_max == 8192
max_tokens_default == 2000

learning_rate_min == 100
learning_rate_max == 10000000
learning_rate_default == 10000

max_rounds_min == 1
max_rounds_max == 10
max_rounds_default == 3

max_examples_min == 1
max_examples_max == 100
max_examples_default == 10

reasoning_weight_min == 0
reasoning_weight_max == 100000000
reasoning_weight_default == 30000000

tolerance_min == 100
tolerance_max == 1000000
tolerance_default == 10000

\* The parameter names in the order __post_init__ walks them.
ParamOrder ==
    << "temperature", "max_tokens", "learning_rate", "max_rounds",
       "max_examples", "reasoning_weight", "tolerance" >>

Declared == { ParamOrder[i] : i \in 1..Len(ParamOrder) }

\* Names a caller may pass: the declared ones and names the table lacks.
UnknownNames == { "top_p", "temperature_min" }

ParamNames == Declared \cup UnknownNames

\* validate_parameter with the bound comparisons made strict (a mutant).
validate_parameter_strict(param_name, value) ==
    CASE param_name = "temperature" ->
            temperature_min < value /\ value < temperature_max
      [] param_name = "max_tokens" ->
            max_tokens_min < value /\ value < max_tokens_max
      [] param_name = "learning_rate" ->
            learning_rate_min < value /\ value < learning_rate_max
      [] param_name = "max_rounds" ->
            max_rounds_min < value /\ value < max_rounds_max
      [] param_name = "max_examples" ->
            max_examples_min < value /\ value < max_examples_max
      [] param_name = "reasoning_weight" ->
            reasoning_weight_min < value /\ value < reasoning_weight_max
      [] param_name = "tolerance" ->
            tolerance_min < value /\ value < tolerance_max
      [] OTHER -> FALSE

\* DSPyParameterBounds.validate_parameter: the if/elif chain, else -> False.
validate_parameter(param_name, value) ==
    CASE param_name = "temperature" ->
            temperature_min <= value /\ value <= temperature_max
      [] param_name = "max_tokens" ->
            max_tokens_min <= value /\ value <= max_tokens_max
      [] param_name = "learning_rate" ->
            learning_rate_min <= value /\ value <= learning_rate_max
      [] param_name = "max_rounds" ->
            max_rounds_min <= value /\ value <= max_rounds_max
      [] param_name = "max_examples" ->
            max_examples_min <= value /\ value <= max_examples_max
      [] param_name = "reasoning_weight" ->
            reasoning_weight_min <= value /\ value <= reasoning_weight_max
      [] param_name = "tolerance" ->
            tolerance_min <= value /\ value <= tolerance_max
      [] OTHER -> FALSE

\* np.clip(value, lo, hi) == minimum(maximum(value, lo), hi)
np_clip(value, lo, hi) ==
    LET m == IF value < lo THEN lo ELSE value
    IN  IF m > hi THEN hi ELSE m

\* clip_parameter that clamps only from above (a mutant).
clip_parameter_upper_only(param_name, value) ==
    LET top(hi) == IF value > hi THEN hi ELSE value
    IN  CASE param_name = "temperature" -> top(temperature_max)
          [] param_name = "max_tokens" -> top(max_tokens_max)
          [] param_name = "learning_rate" -> top(learning_rate_max)
          [] param_name = "max_rounds" -> top(max_rounds_max)
          [] param_name = "max_examples" -> top(max_examples_max)
          [] param_name = "reasoning_weight" -> top(reasoning_weight_max)
          [] param_name = "tolerance" -> top(tolerance_max)
          [] OTHER -> value

\* clip_parameter whose max_rounds branch was pasted from max_examples and
\* still clips to the max_examples bounds (a mutant).
clip_parameter_copy_paste(param_name, value) ==
    CASE param_name = "temperature" ->
            np_clip(value, temperature_min, temperature_max)
      [] param_name = "max_tokens" ->
            np_clip(value, max_tokens_min, max_tokens_max)
      [] param_name = "learning_rate" ->
            np_clip(value, learning_rate_min, learning_rate_max)
      [] param_name = "max_rounds" ->
            np_clip(value, max_examples_min, max_examples_max)
      [] param_name = "max_examples" ->
            np_clip(value, max_examples_min, max_examples_max)
      [] param_name = "reasoning_weight" ->
            np_clip(value, reasoning_weight_min, reasoning_weight_max)
      [] param_name = "tolerance" ->
            np_clip(value, tolerance_min, tolerance_max)
      [] OTHER -> value

\* DSPyParameterBounds.clip_parameter: the if/elif chain, else -> value.
clip_parameter(param_name, value) ==
    CASE param_name = "temperature" ->
            np_clip(value, temperature_min, temperature_max)
      [] param_name = "max_tokens" ->
            np_clip(value, max_tokens_min, max_tokens_max)
      [] param_name = "learning_rate" ->
            np_clip(value, learning_rate_min, learning_rate_max)
      [] param_name = "max_rounds" ->
            np_clip(value, max_rounds_min, max_rounds_max)
      [] param_name = "max_examples" ->
            np_clip(value, max_examples_min, max_examples_max)
      [] param_name = "reasoning_weight" ->
            np_clip(value, reasoning_weight_min, reasoning_weight_max)
      [] param_name = "tolerance" ->
            np_clip(value, tolerance_min, tolerance_max)
      [] OTHER -> value

\* The table read as data, for stating properties about it.
TableMin(n) ==
    CASE n = "temperature" -> temperature_min
      [] n = "max_tokens" -> max_tokens_min
      [] n = "learning_rate" -> learning_rate_min
      [] n = "max_rounds" -> max_rounds_min
      [] n = "max_examples" -> max_examples_min
      [] n = "reasoning_weight" -> reasoning_weight_min
      [] n = "tolerance" -> tolerance_min

TableMax(n) ==
    CASE n = "temperature" -> temperature_max
      [] n = "max_tokens" -> max_tokens_max
      [] n = "learning_rate" -> learning_rate_max
      [] n = "max_rounds" -> max_rounds_max
      [] n = "max_examples" -> max_examples_max
      [] n = "reasoning_weight" -> reasoning_weight_max
      [] n = "tolerance" -> tolerance_max

TableDefault(n) ==
    CASE n = "temperature" -> temperature_default
      [] n = "max_tokens" -> max_tokens_default
      [] n = "learning_rate" -> learning_rate_default
      [] n = "max_rounds" -> max_rounds_default
      [] n = "max_examples" -> max_examples_default
      [] n = "reasoning_weight" -> reasoning_weight_default
      [] n = "tolerance" -> tolerance_default


(***************************************************************************)
(* Bounds of the model                                                     *)
(***************************************************************************)
\* How many of the seven fields one constructor call sets away from the
\* dataclass defaults.
MaxChanged == 2

\* Longest loss history of a tuning session.
MaxHistory == 4

\* Number of distinct loss values.
LossLevels == 3

\* Confidence scores are multiples of 1 / GridSteps.
GridSteps == 2

\* Longest list of predictions handed to the calibrator.
MaxSamples == 2

\* Longest sample a calibrator is fitted on.
MaxTrain == 2

\* The n_bins values callers pass (10 is the default).
BinChoices == { 1, 2, 10 }

\* Longest dataset of a benchmark evaluation.
MaxExamples == 3

\* Longest component list of an ablation study.
MaxComponents == 3

\* Number of bootstrap resamples of one evaluation.
MaxResamples == 2

\* Largest number of BenchmarkResults handed to one report.
MaxResults == 2

\* Largest number of optimize_temperature invocations on one optimizer.
MaxTrace == 2

\* Number of trial temperatures of one bounded minimization after the first.
MaxTrials == 2

\* Longest loss history handed to adaptive_learning_rate directly.
MaxLosses == 4

\* Longest label / prediction list handed to the bootstrap directly.
MaxPairs == 2

\* AcademicDSPyEvaluator(confidence_level=0.95, n_bootstrap=1000): the
\* confidence level in 1/1000, and the number of resamples, cut down.
confidence_level == 950

n_bootstrap == MaxResamples

(***************************************************************************)
(* State                                                                   *)
(***************************************************************************)
VARIABLES
    probe,          \* last call of validate_parameter / clip_parameter
    cfgStatus,      \* "none" | "constructed" | "failed"
    cfgArgs,        \* the arguments of the constructor call
    cfgFields,      \* the seven numeric fields of the config object
    cfgError,       \* <<name, value>> of the ValueError raised, or <<>>
    cfgWarnings,    \* the "Clipped ..." warnings logged, in order
    cfgReport,      \* result of validate_parameter_bounds(config), or <<>>
    tuning,         \* "idle" | "running": the caller's tuning session
    lr0,            \* the rate the session started from
    lr,             \* the caller's current learning rate
    loss_history,   \* the losses recorded so far
    method,         \* DSPyConfidenceCalibrator.method
    calibrator,     \* DSPyConfidenceCalibrator.calibrator (the estimator)
    is_fitted,      \* DSPyConfidenceCalibrator.is_fitted
    everFitted,     \* history: some fit on this object has returned
    calCall,        \* the last call on the calibrator and its outcome
    evPc,           \* "idle" | "loop" | "returned" | "raised"
    evBenchmark,    \* which evaluate_* method runs
    evDataset,      \* the loaded examples
    evPos,          \* index of the next example of the loop
    predictions,    \* the predictions list (with the index of its example)
    ground_truth,   \* the ground_truth list (with the index of its example)
    evWarnings,     \* indices of the examples a warning was logged for
    evResult,       \* the BenchmarkResult returned, or the error raised
    evBaselines,    \* the baseline_results argument of the evaluation
    ablPc,          \* "idle" | "loop" | "returned" | "raised"
    ablComponents,  \* the components argument
    ablPos,         \* index of the next component of the loop
    ablResults,     \* the results dictionary
    ablCalls,       \* the calls of _evaluate_on_dataset, in order
    ablDataset,     \* the dataset argument of the study
    repPc,          \* "idle" | "loop" | "returned" | "raised"
    repResults,     \* the results argument of generate_academic_report
    repPos,         \* index of the next result of the loop
    report,         \* the report text built so far, as a list of its parts
    optPc,          \* "idle" | "called": a call on the optimizer has ended
    optBounds,      \* DSPyParameterOptimizer.bounds (the temperature range)
    optimization_history,   \* DSPyParameterOptimizer.optimization_history
    optLog,         \* history: the optimize_temperature invocations so far
    optCall,        \* the last call on the optimizer and its outcome
    bootPc,         \* "idle" | "loop" | "returned"
    bootArgs,       \* true_labels, predictions and self.confidence_level of the call
    bootDraw,       \* the last resample: indices, boot_true, boot_pred
    bootstrap_scores,   \* the hits of each resample so far (score = hits / n)
    bootResult,     \* (ci_lower, ci_upper) returned, or << >>
    statCall,       \* the last direct call of _significance_test / _cohens_d
    binCall,        \* the last binning of a sample: by which method, and the bin populations
    isoModel,       \* an isotonic calibrator: is_fitted and its IsotonicRegression estimator
    isoCall         \* the last fit / predict_proba call on it and its outcome

boundsVars == << probe >>
configVars == << cfgStatus, cfgArgs, cfgFields, cfgError, cfgWarnings, cfgReport >>
tuningVars == << tuning, lr0, lr, loss_history >>
calVars == << method, calibrator, is_fitted, everFitted, calCall >>
evalVars == << evPc, evBenchmark, evDataset, evPos, predictions, ground_truth,
              evWarnings, evResult, evBaselines >>
ablVars == << ablPc, ablComponents, ablPos, ablResults, ablCalls, ablDataset >>
reportVars == << repPc, repResults, repPos, report >>
optVars == << optPc, optBounds, optimization_history, optLog, optCall >>
bootVars == << bootPc, bootArgs, bootDraw, bootstrap_scores, bootResult >>
statVars == << statCall >>
binVars == << binCall >>
isoVars == << isoModel, isoCall >>

\* What each component leaves alone.
OtherThanBounds == << configVars, tuningVars, calVars, evalVars, ablVars, reportVars,
    optVars, bootVars, statVars, binVars, isoVars >>
OtherThanConfig == << boundsVars, tuningVars, calVars, evalVars, ablVars, reportVars,
    optVars, bootVars, statVars, binVars, isoVars >>
OtherThanTuning == << boundsVars, configVars, calVars, evalVars, ablVars, reportVars,
    optVars, bootVars, statVars, binVars, isoVars >>
OtherThanCalibrator == << boundsVars, configVars, tuningVars, evalVars, ablVars,
    reportVars, optVars, bootVars, statVars, binVars, isoVars >>
OtherThanEvaluation == << boundsVars, configVars, tuningVars, calVars, ablVars,
    reportVars, optVars, bootVars, statVars, binVars, isoVars >>
OtherThanAblation == << boundsVars, configVars, tuningVars, calVars, evalVars,
    reportVars, optVars, bootVars, statVars, binVars, isoVars >>
OtherThanReport == << boundsVars, configVars, tuningVars, calVars, evalVars, ablVars,
    optVars, bootVars, statVars, binVars, isoVars >>
OtherThanOptimizer == << boundsVars, configVars, tuningVars, calVars, evalVars,
    ablVars, reportVars, bootVars, statVars, binVars, isoVars >>
OtherThanBootstrap == << boundsVars, configVars, tuningVars, calVars, evalVars,
    ablVars, reportVars, optVars, statVars, binVars, isoVars >>
OtherThanStatistics == << boundsVars, configVars, tuningVars, calVars, evalVars,
    ablVars, reportVars, optVars, bootVars, binVars, isoVars >>
OtherThanBinning == << boundsVars, configVars, tuningVars, calVars, evalVars, ablVars,
    reportVars, optVars, bootVars, statVars, isoVars >>
OtherThanIsotonic == << boundsVars, configVars, tuningVars, calVars, evalVars, ablVars,
    reportVars, optVars, bootVars, statVars, binVars >>

(***************************************************************************)
(* Inputs                                                                  *)
(***************************************************************************)
\* Values around every bound of the table, and the values of the
\* scenarios (-1.0 and 5.0 as temperatures).
TestValues(n) ==
    { TableMin(n) - 1, TableMin(n), TableDefault(n), TableMax(n), TableMax(n) + 1 }

ScenarioValues == { -100000000, 500000000 }

AllTestValues == UNION { TestValues(n) : n \in Declared } \cup ScenarioValues

FieldValues(n) ==
    IF n = "temperature" THEN TestValues(n) \cup ScenarioValues ELSE TestValues(n)

\* Field defaults with max_tokens = 10000, above the table's maximum (a
\* mutant).
DefaultFieldsOutOfRange ==
    [ n \in Declared |->
        CASE n = "temperature" -> 70000000
          [] n = "max_tokens" -> 10000
          [] n = "learning_rate" -> 10000
          [] n = "max_rounds" -> 3
          [] n = "max_examples" -> 10
          [] n = "reasoning_weight" -> 30000000
          [] n = "tolerance" -> 10000 ]

\* The field defaults of the DSPyCalibrationConfig dataclass.
DefaultFields ==
    [ n \in Declared |->
        CASE n = "temperature" -> 70000000
          [] n = "max_tokens" -> 2000
          [] n = "learning_rate" -> 10000
          [] n = "max_rounds" -> 3
          [] n = "max_examples" -> 10
          [] n = "reasoning_weight" -> 30000000
          [] n = "tolerance" -> 10000 ]

FieldChoices == { << n, v >> : n \in Declared, v \in AllTestValues }

\* Field assignments that differ from the defaults in at most k places.
RECURSIVE ChangedFrom(_, _)
ChangedFrom(fields, k) ==
    IF k = 0 THEN { fields }
    ELSE LET prev == ChangedFrom(fields, k - 1)
         IN  prev \cup { [ f EXCEPT ![c[1]] = c[2] ] :
                           f \in prev,
                           c \in { d \in FieldChoices : d[2] \in FieldValues(d[1]) } }

ConfigFieldInputs == ChangedFrom(DefaultFields, MaxChanged)

(***************************************************************************)
(* DSPyParameterBounds: calls                                              *)
(***************************************************************************)
NoProbe == [ op |-> "none", name |-> "", value |-> 0, ret |-> << >> ]

\* bounds.validate_parameter(param_name, value)
ValidateParameter(n, v) ==
    /\ probe' = [ op |-> "validate", name |-> n, value |-> v,
                  ret |-> << validate_parameter(n, v) >> ]
    /\ UNCHANGED OtherThanBounds

\* bounds.clip_parameter(param_name, value)
ClipParameter(n, v) ==
    /\ probe' = [ op |-> "clip", name |-> n, value |-> v,
                  ret |-> << clip_parameter(n, v) >> ]
    /\ UNCHANGED OtherThanBounds

(***************************************************************************)
(* DSPyCalibrationConfig                                                   *)
(***************************************************************************)
\* __post_init__ that stops one parameter short (a mutant of the loop).
RECURSIVE post_init_loop_short(_, _, _, _)
post_init_loop_short(i, fields, clip, warnings) ==
    IF i > Len(ParamOrder) - 1
    THEN [ raised |-> FALSE, fields |-> fields, error |-> << >>,
           warnings |-> warnings ]
    ELSE LET param_name == ParamOrder[i]
             value == fields[param_name]
         IN  IF ~ validate_parameter(param_name, value)
             THEN IF clip
                  THEN LET clipped_value == clip_parameter(param_name, value)
                       IN  post_init_loop_short(i + 1,
                               [ fields EXCEPT ![param_name] = clipped_value ],
                               clip,
                               Append(warnings, << param_name, value, clipped_value >>))
                  ELSE [ raised |-> TRUE, fields |-> fields,
                         error |-> << param_name, value >>,
                         warnings |-> warnings ]
             ELSE post_init_loop_short(i + 1, fields, clip, warnings)

\* The loop clipping the field before it looks at clip_invalid_parameters,
\* so that a failed construction has altered the offending field (a mutant).
RECURSIVE post_init_loop_clip_first(_, _, _, _)
post_init_loop_clip_first(i, fields, clip, warnings) ==
    IF i > Len(ParamOrder)
    THEN [ raised |-> FALSE, fields |-> fields, error |-> << >>,
           warnings |-> warnings ]
    ELSE LET param_name == ParamOrder[i]
             value == fields[param_name]
             clipped_value == clip_parameter(param_name, value)
         IN  IF ~ validate_parameter(param_name, value)
             THEN IF clip
                  THEN post_init_loop_clip_first(i + 1,
                           [ fields EXCEPT ![param_name] = clipped_value ],
                           clip,
                           Append(warnings, << param_name, value, clipped_value >>))
                  ELSE [ raised |-> TRUE,
                         fields |-> [ fields EXCEPT ![param_name] = clipped_value ],
                         error |-> << param_name, value >>,
                         warnings |-> warnings ]
             ELSE post_init_loop_clip_first(i + 1, fields, clip, warnings)

\* The for loop of __post_init__, from position i of the name list on.
RECURSIVE post_init_loop(_, _, _, _)
post_init_loop(i, fields, clip, warnings) ==
    IF i > Len(ParamOrder)
    THEN [ raised |-> FALSE, fields |-> fields, error |-> << >>,
           warnings |-> warnings ]
    ELSE LET param_name == ParamOrder[i]
             value == fields[param_name]
         IN  IF ~ validate_parameter(param_name, value)
             THEN IF clip
                  THEN LET clipped_value == clip_parameter(param_name, value)
                       IN  post_init_loop(i + 1,
                               [ fields EXCEPT ![param_name] = clipped_value ],
                               clip,
                               Append(warnings, << param_name, value, clipped_value >>))
                  ELSE [ raised |-> TRUE, fields |-> fields,
                         error |-> << param_name, value >>,
                         warnings |-> warnings ]
             ELSE post_init_loop(i + 1, fields, clip, warnings)

\* DSPyCalibrationConfig.__post_init__
post_init(args) ==
    IF ~ args.validate_parameters
    THEN [ raised |-> FALSE, fields |-> args.fields, error |-> << >>,
           warnings |-> << >> ]
    ELSE post_init_loop(1, args.fields, args.clip_invalid_parameters, << >>)

NoArgs == [ fields |-> DefaultFields, validate_parameters |-> TRUE,
            clip_invalid_parameters |-> TRUE ]

\* DSPyCalibrationConfig(**args): the generated __init__ stores the fields,
\* then __post_init__ runs; a raise leaves no object behind.
ConstructConfig(args) ==
    /\ cfgStatus = "none"
    /\ LET r == post_init(args)
       IN  /\ cfgStatus' = IF r.raised THEN "failed" ELSE "constructed"
           /\ cfgFields' = r.fields
           /\ cfgError' = r.error
           /\ cfgWarnings' = r.warnings
    /\ cfgArgs' = args
    /\ cfgReport' = << >>
    /\ UNCHANGED OtherThanConfig

\* DSPyCalibrationValidator.validate_parameter_bounds(config)
ValidateParameterBounds ==
    /\ cfgStatus = "constructed"
    /\ cfgReport = << >>
    /\ cfgReport' = << [ n \in Declared |-> validate_parameter(n, cfgFields[n]) ] >>
    /\ UNCHANGED << cfgStatus, cfgArgs, cfgFields, cfgError, cfgWarnings >>
    /\ UNCHANGED OtherThanConfig

\* The caller drops the object (or the failed attempt) and may build another.
DiscardConfig ==
    /\ cfgStatus # "none"
    /\ cfgStatus' = "none"
    /\ cfgArgs' = NoArgs
    /\ cfgFields' = DefaultFields
    /\ cfgError' = << >>
    /\ cfgWarnings' = << >>
    /\ cfgReport' = << >>
    /\ UNCHANGED OtherThanConfig

(***************************************************************************)
(* DSPyParameterOptimizer.adaptive_learning_rate                           *)
(*                                                                         *)
(* A tuning session of a caller: it starts from a rate lr0, and after      *)
(* each recorded loss it replaces its rate by the value returned for the   *)
(* history so far.  Products are rounded down to the 1e-8 grid.            *)
(***************************************************************************)
\* adaptive_learning_rate with the final clip left out (a mutant).
adaptive_learning_rate_unclipped(history, current_lr) ==
    IF Len(history) < 3
    THEN current_lr
    ELSE LET n == Len(history)
             recent_losses == << history[n - 2], history[n - 1], history[n] >>
         IN  IF recent_losses[3] > recent_losses[2] /\ recent_losses[2] > recent_losses[1]
             THEN current_lr \div 2
             ELSE IF recent_losses[3] < recent_losses[2] /\ recent_losses[2] < recent_losses[1]
                  THEN (current_lr * 11) \div 10
                  ELSE current_lr

\* DSPyParameterOptimizer.adaptive_learning_rate(loss_history, current_lr)
adaptive_learning_rate(history, current_lr) ==
    IF Len(history) < 3
    THEN current_lr
    ELSE LET n == Len(history)
             recent_losses == << history[n - 2], history[n - 1], history[n] >>
             new_lr ==
                 IF recent_losses[3] > recent_losses[2] /\ recent_losses[2] > recent_losses[1]
                 THEN current_lr \div 2
                 ELSE IF recent_losses[3] < recent_losses[2] /\ recent_losses[2] < recent_losses[1]
                      THEN (current_lr * 11) \div 10
                      ELSE current_lr
         IN  clip_parameter("learning_rate", new_lr)

\* Rates a caller may start from: around both bounds, the default, zero.
StartRates == TestValues("learning_rate") \cup { 0, 2 * learning_rate_max }

\* Loss values a training round may record.
Losses == 1..LossLevels

\* The caller starts a session with an empty loss history.
StartTuning(rate) ==
    /\ tuning = "idle"
    /\ tuning' = "running"
    /\ lr0' = rate
    /\ lr' = rate
    /\ loss_history' = << >>
    /\ UNCHANGED OtherThanTuning

\* One round: record the loss, ask for the adapted rate, adopt it.
TuningRound(loss) ==
    /\ tuning = "running"
    /\ Len(loss_history) < MaxHistory
    /\ loss_history' = Append(loss_history, loss)
    /\ lr' = adaptive_learning_rate(loss_history', lr)
    /\ UNCHANGED << tuning, lr0 >>
    /\ UNCHANGED OtherThanTuning

\* The session ends.
StopTuning ==
    /\ tuning = "running"
    /\ tuning' = "idle"
    /\ lr0' = learning_rate_default
    /\ lr' = learning_rate_default
    /\ loss_history' = << >>
    /\ UNCHANGED OtherThanTuning

(***************************************************************************)
(* DSPyConfidenceCalibrator                                                *)
(*                                                                         *)
(* A confidence score is k / GridSteps for k in 0..GridSteps; a target is  *)
(* 0 or 1.  Metrics are exact fractions [num, den]; 0/0 stands for nan.    *)
(***************************************************************************)
SeqsUpTo(S, n) == UNION { [ 1..k -> S ] : k \in 0..n }

Samples == [ pred : 0..GridSteps, target : {0, 1} ]

\* The metrics are sums and means over the members of each bin, and the
\* estimators' own fit looks at the sample as a whole, so neither depends on
\* the order of the sample: samples are listed by prediction, then by target.
SampleKey(x) == 2 * x.pred + x.target

Ordered(s) == \A i \in 1..(Len(s) - 1) : SampleKey(s[i]) <= SampleKey(s[i + 1])

SampleSets == { s \in SeqsUpTo(Samples, MaxSamples) : Ordered(s) }

TrainSets == { s \in SeqsUpTo(Samples, MaxTrain) : Ordered(s) }

ScoreLists == SeqsUpTo(0..GridSteps, MaxSamples)

Methods == { "platt", "isotonic", "temperature", "sigmoid" }

RECURSIVE SumOver(_, _)
SumOver(f, S) ==
    IF S = {} THEN 0
    ELSE LET x == CHOOSE y \in S : TRUE
         IN  f[x] + SumOver(f, S \ {x})

RECURSIVE ProdOver(_, _)
ProdOver(f, S) ==
    IF S = {} THEN 1
    ELSE LET x == CHOOSE y \in S : TRUE
         IN  f[x] * ProdOver(f, S \ {x})

Abs(x) == IF x < 0 THEN 0 - x ELSE x

Frac(n, d) == [ num |-> n, den |-> d ]

\* {} : a dict with no key
EmptyDict == [ k \in {} |-> 0 ]

\* (prediction - target), in grid steps
Dev(x) == x.pred - GridSteps * x.target

\* Bins closed at both ends: a prediction on an inner boundary is counted
\* in the two bins that meet there (a mutant).
in_bin_closed(data, k, n_bins) ==
    { i \in 1..Len(data) :
        /\ data[i].pred * n_bins >= (k - 1) * GridSteps
        /\ data[i].pred * n_bins <= k * GridSteps }

\* in_bin = (predictions > bin_lower) & (predictions <= bin_upper) for the
\* k-th of n_bins bins of np.linspace(0, 1, n_bins + 1)
in_bin(data, k, n_bins) ==
    { i \in 1..Len(data) :
        /\ data[i].pred * n_bins > (k - 1) * GridSteps
        /\ data[i].pred * n_bins <= k * GridSteps }

\* DSPyConfidenceCalibrator.evaluate_calibration(predictions, targets, n_bins)
evaluate_calibration(data, n_bins) ==
    LET N == Len(data)
        bins == { k \in 1..n_bins : in_bin(data, k, n_bins) # {} }
        cnt == [ k \in bins |-> Cardinality(in_bin(data, k, n_bins)) ]
        dev == [ i \in 1..N |-> Dev(data[i]) ]
        \* |avg_confidence_in_bin - accuracy_in_bin| * GridSteps * cnt[k]
        gap == [ k \in bins |-> Abs(SumOver(dev, in_bin(data, k, n_bins))) ]
        worst == IF bins = {} THEN 0
                 ELSE CHOOSE k \in bins :
                        \A j \in bins : gap[k] * cnt[j] >= gap[j] * cnt[k]
        P == ProdOver(cnt, bins)
        sq == [ i \in 1..N |-> dev[i] * dev[i] ]
        ones == SumOver([ i \in 1..N |-> data[i].target ], 1..N)
    IN  [ ece |-> IF bins = {} THEN Frac(0, 1)
                  ELSE Frac(SumOver(gap, bins), GridSteps * N),
          mce |-> IF bins = {} THEN Frac(0, 1)
                  ELSE Frac(gap[worst], GridSteps * cnt[worst]),
          brier_score |-> Frac(SumOver(sq, 1..N), GridSteps * GridSteps * N),
          reliability |->
              Frac(SumOver([ k \in bins |-> gap[k] * gap[k] * (P \div cnt[k]) ], bins),
                   GridSteps * GridSteps * N * P),
          resolution |-> Frac(N * ones - ones * ones, N * N) ]

\* The metrics of every input of the model, computed once and written out
\* as a table (@@ yields an explicit function).
MetricsOf ==
    [ key \in SampleSets \X BinChoices |-> evaluate_calibration(key[1], key[2]) ] @@ << >>

\* The estimator object held in self.calibrator: its class, and whether its
\* own fit has succeeded (an unfitted sklearn estimator cannot predict).
\* TemperatureScaling(): self.temperature = torch.ones(1) * 1.0, in 1/100
initial_temperature == 100

\* The estimator a branch of fit leaves in self.calibrator.  Of a
\* TemperatureScaling object the record also holds the temperature parameter
\* and the number of calls of its calibrate method made so far.
Estimator(kind, usable) ==
    [ kind |-> kind, usable |-> usable,
      temperature |-> IF kind = "TemperatureScaling" THEN initial_temperature ELSE 0,
      calibrate_calls |-> 0 ]

NoEstimator == Estimator("None", FALSE)

\* sklearn's LogisticRegression.fit rejects an empty sample and a sample
\* with a single class; IsotonicRegression.fit rejects an empty sample.
EstimatorRejects(kind, data) ==
    CASE kind = "LogisticRegression" ->
            \/ Len(data) = 0
            \/ \A i, j \in 1..Len(data) : data[i].target = data[j].target
      [] kind = "IsotonicRegression" -> Len(data) = 0
      [] OTHER -> FALSE

\* fit that raises the flag before the method is looked at (a mutant).
fit_flag_first(m, cal, fitted, data) ==
    LET kind == CASE m = "platt" -> "LogisticRegression"
                  [] m = "isotonic" -> "IsotonicRegression"
                  [] m = "temperature" -> "TemperatureScaling"
                  [] OTHER -> "None"
    IN  IF kind = "None"
        THEN [ calibrator |-> cal, is_fitted |-> TRUE,
               outcome |-> "raise", error |-> "ValueError: unknown method" ]
        ELSE IF EstimatorRejects(kind, data)
        THEN [ calibrator |-> Estimator(kind, FALSE),
               is_fitted |-> TRUE,
               outcome |-> "raise", error |-> "ValueError: estimator" ]
        ELSE [ calibrator |-> Estimator(kind, TRUE),
               is_fitted |-> TRUE,
               outcome |-> "ok", error |-> "" ]

\* fit with the else branch falling back to Platt scaling (a mutant).
fit_default_platt(m, cal, fitted, data) ==
    LET kind == CASE m = "isotonic" -> "IsotonicRegression"
                  [] m = "temperature" -> "TemperatureScaling"
                  [] OTHER -> "LogisticRegression"
    IN  IF EstimatorRejects(kind, data)
        THEN [ calibrator |-> Estimator(kind, FALSE),
               is_fitted |-> fitted,
               outcome |-> "raise", error |-> "ValueError: estimator" ]
        ELSE [ calibrator |-> Estimator(kind, TRUE),
               is_fitted |-> TRUE,
               outcome |-> "ok", error |-> "" ]

\* DSPyConfidenceCalibrator.fit(predictions, targets): the estimator is
\* installed first and fitted next; is_fitted is set once that returned.
\* The temperature branch installs TemperatureScaling() and fits nothing.
fit(m, cal, fitted, data) ==
    LET kind == CASE m = "platt" -> "LogisticRegression"
                  [] m = "isotonic" -> "IsotonicRegression"
                  [] m = "temperature" -> "TemperatureScaling"
                  [] OTHER -> "None"
    IN  IF kind = "None"
        THEN [ calibrator |-> cal, is_fitted |-> fitted,
               outcome |-> "raise", error |-> "ValueError: unknown method" ]
        ELSE IF EstimatorRejects(kind, data)
        THEN [ calibrator |-> Estimator(kind, FALSE),
               is_fitted |-> fitted,
               outcome |-> "raise", error |-> "ValueError: estimator" ]
        ELSE [ calibrator |-> Estimator(kind, TRUE),
               is_fitted |-> TRUE,
               outcome |-> "ok", error |-> "" ]

\* DSPyConfidenceCalibrator.predict_proba(predictions).  The calibrated
\* values come from the installed estimator; the call result records that
\* one value per input was produced, and the temperature the logits were
\* divided by (TemperatureScaling.forward).
predict_proba(m, cal, fitted, scores) ==
    IF ~ fitted
    THEN [ outcome |-> "raise", error |-> "ValueError: not fitted", value |-> << >> ]
    ELSE IF m \in { "platt", "isotonic", "temperature" }
    THEN IF cal.kind = "None"
         THEN [ outcome |-> "raise", error |-> "AttributeError", value |-> << >> ]
         ELSE IF ~ cal.usable
         THEN [ outcome |-> "raise", error |-> "NotFittedError", value |-> << >> ]
         ELSE IF m # "temperature" /\ Len(scores) = 0
         THEN [ outcome |-> "raise", error |-> "ValueError: estimator", value |-> << >> ]
         ELSE [ outcome |-> "ok", error |-> "",
                value |-> << [ from |-> cal.kind, n |-> Len(scores),
                               temperature |-> cal.temperature ] >> ]
    ELSE [ outcome |-> "ok", error |-> "",
           value |-> << [ from |-> "input", n |-> Len(scores), temperature |-> 0 ] >> ]

\* evaluate_calibration guarded by the fitted flag (a mutant).
evaluate_outcome_guarded(fitted, data, n_bins) ==
    IF ~ fitted
    THEN [ outcome |-> "raise", error |-> "ValueError: not fitted", value |-> << >> ]
    ELSE [ outcome |-> "ok", error |-> "",
           value |-> << MetricsOf[<< data, n_bins >>] >> ]

\* A call of evaluate_calibration on a calibrator whose flag is `fitted`:
\* the method never reads the flag or the estimator.
evaluate_outcome(fitted, data, n_bins) ==
    [ outcome |-> "ok", error |-> "",
      value |-> << MetricsOf[<< data, n_bins >>] >> ]

NoCall == [ op |-> "none", outcome |-> "", error |-> "", value |-> << >> ]

\* DSPyConfidenceCalibrator(method)
NewCalibrator(m) ==
    /\ method' = m
    /\ calibrator' = NoEstimator
    /\ is_fitted' = FALSE
    /\ everFitted' = FALSE
    /\ calCall' = NoCall
    /\ UNCHANGED OtherThanCalibrator

\* calibrator.fit(predictions, targets)
Fit(data) ==
    LET r == fit(method, calibrator, is_fitted, data)
    IN  /\ calibrator' = r.calibrator
        /\ is_fitted' = r.is_fitted
        /\ everFitted' = (everFitted \/ r.outcome = "ok")
        /\ calCall' = [ op |-> "fit", outcome |-> r.outcome, error |-> r.error,
                        value |-> << >> ]
        /\ UNCHANGED method
        /\ UNCHANGED OtherThanCalibrator

\* calibrator.predict_proba(predictions)
PredictProba(scores) ==
    LET r == predict_proba(method, calibrator, is_fitted, scores)
    IN  /\ calCall' = [ op |-> "predict", outcome |-> r.outcome, error |-> r.error,
                        value |-> r.value ]
        /\ UNCHANGED << method, calibrator, is_fitted, everFitted >>
        /\ UNCHANGED OtherThanCalibrator

\* calibrator.evaluate_calibration(predictions, targets, n_bins)
EvaluateCalibration(data, n_bins) ==
    LET r == evaluate_outcome(is_fitted, data, n_bins)
    IN  /\ calCall' = [ op |-> "evaluate", outcome |-> r.outcome, error |-> r.error,
                        value |-> r.value ]
        /\ UNCHANGED << method, calibrator, is_fitted, everFitted >>
        /\ UNCHANGED OtherThanCalibrator

(***************************************************************************)
(* AcademicDSPyEvaluator._significance_test and _cohens_d                  *)
(*                                                                         *)
(* Scores are in 1/1000, the t statistic in 1/1000, p-values in 1e-6.      *)
(* stats.t.cdf is not computed digit by digit: a p-value is given by the   *)
(* bracket it falls in, found by comparing |t| with the two-sided critical *)
(* values of Student's t distribution with 999 degrees of freedom.         *)
(***************************************************************************)
\* n_samples = 1000, std_dev = 0.05: 1 / (std_dev / sqrt(n_samples)) = 632.5
t_per_unit_x10 == 6325

\* Critical |t| (in 1/1000) of the two-sided levels 0.05, 0.01 and 0.001
\* at n_samples - 1 = 999 degrees of freedom.
t_crit_05 == 1962

t_crit_01 == 2581

t_crit_001 == 3300

\* 1 / pooled_std = 1 / 0.05
inverse_pooled_std == 20

\* The statistic without the abs() of line 319 (a mutant).
t_statistic_signed(observed_score, baseline_score) ==
    ((observed_score - baseline_score) * t_per_unit_x10) \div 10

\* abs(t_statistic), t_statistic = (observed - baseline) / (std_dev / sqrt(n))
t_statistic_abs(observed_score, baseline_score) ==
    (Abs(observed_score - baseline_score) * t_per_unit_x10) \div 10

\* p_value = 2 * (1 - stats.t.cdf(abs(t_statistic), n_samples - 1)), as the
\* bracket [lo, hi] (in 1e-6) that holds it; t = 0 gives exactly 1.
p_value_of(abs_t) ==
    IF abs_t > t_crit_001 THEN [ nan |-> FALSE, lo |-> 0, hi |-> 999 ]
    ELSE IF abs_t > t_crit_01 THEN [ nan |-> FALSE, lo |-> 1000, hi |-> 9999 ]
    ELSE IF abs_t > t_crit_05 THEN [ nan |-> FALSE, lo |-> 10000, hi |-> 49999 ]
    ELSE IF abs_t > 0 THEN [ nan |-> FALSE, lo |-> 50001, hi |-> 999999 ]
    ELSE [ nan |-> FALSE, lo |-> 1000000, hi |-> 1000000 ]

\* The p-value and the effect size of a nan score: nan.
NaNP == [ nan |-> TRUE, lo |-> 0, hi |-> 0 ]

NaNEffect == [ nan |-> TRUE, value |-> 0 ]

\* AcademicDSPyEvaluator._significance_test(observed_score, baseline_score)
significance_test(observed_score, baseline_score) ==
    p_value_of(t_statistic_abs(observed_score, baseline_score))

\* AcademicDSPyEvaluator._cohens_d(score1, score2), in 1/1000
cohens_d(score1, score2) == (score1 - score2) * inverse_pooled_std

\* p < level and p > level (level in 1e-6) for a bracketed p-value; every
\* comparison with nan is false.
PBelow(p, level) == ~ p.nan /\ p.hi < level

PAbove(p, level) == ~ p.nan /\ p.lo > level

\* Scores of a direct call: the two pairs of the test, a difference of
\* 0.003, the published baselines, and the ends of the scale.
ScoreValues == { 0, 589, 650, 700, 703, 705, 850, 1000 }

NoStatCall == [ op |-> "none", observed |-> 0, baseline |-> 0,
                p_value |-> NaNP, effect_size |-> 0 ]

\* evaluator._significance_test(observed_score, baseline_score)
SignificanceTest(observed_score, baseline_score) ==
    /\ statCall' = [ op |-> "significance_test", observed |-> observed_score,
                     baseline |-> baseline_score,
                     p_value |-> significance_test(observed_score, baseline_score),
                     effect_size |-> 0 ]
    /\ UNCHANGED OtherThanStatistics

\* evaluator._cohens_d(score1, score2)
CohensD(score1, score2) ==
    /\ statCall' = [ op |-> "cohens_d", observed |-> score1, baseline |-> score2,
                     p_value |-> NaNP,
                     effect_size |-> cohens_d(score1, score2) ]
    /\ UNCHANGED OtherThanStatistics

(***************************************************************************)
(* AcademicDSPyEvaluator: the three benchmark evaluations                  *)
(*                                                                         *)
(* An example of the dataset either goes through, or raises in the model   *)
(* call ("model"), in reading prediction.answer / extracting the answer    *)
(* ("extract"), or lacks the 'answer' key ("answer").  Answers are 0 or 1. *)
(***************************************************************************)
Benchmarks == { "gsm8k", "hotpotqa", "strategyqa" }

Examples ==
    { e \in [ fault : { "none", "model", "extract", "answer" }, answer : {0, 1} ] :
        e.fault # "none" => e.answer = 0 }

Datasets == SeqsUpTo(Examples, MaxExamples)

\* What is appended to predictions: _extract_numerical_answer returns 0.0,
\* _extract_boolean_answer returns True, HotPotQA keeps prediction.answer.
ExtractedAnswer(benchmark) ==
    CASE benchmark = "gsm8k" -> 0
      [] benchmark = "strategyqa" -> 1
      [] benchmark = "hotpotqa" -> 1

\* The loop body with ground_truth appended before predictions, so that a
\* missing 'answer' key raises before anything is appended (a mutant).
loop_body_answer_first(benchmark, i, example, preds, truth) ==
    IF example.fault = "none"
    THEN [ predictions |-> Append(preds, [ src |-> i, val |-> ExtractedAnswer(benchmark) ]),
           ground_truth |-> Append(truth, [ src |-> i, val |-> example.answer ]),
           warned |-> FALSE ]
    ELSE [ predictions |-> preds, ground_truth |-> truth, warned |-> TRUE ]

\* One iteration of the for loop: try: call the model, append the
\* extracted answer to predictions, append example['answer'] to
\* ground_truth; except Exception: warn and continue.
loop_body(benchmark, i, example, preds, truth) ==
    CASE example.fault \in { "model", "extract" } ->
            [ predictions |-> preds, ground_truth |-> truth, warned |-> TRUE ]
      [] example.fault = "answer" ->
            [ predictions |-> Append(preds, [ src |-> i, val |-> ExtractedAnswer(benchmark) ]),
              ground_truth |-> truth,
              warned |-> TRUE ]
      [] example.fault = "none" ->
            [ predictions |-> Append(preds, [ src |-> i, val |-> ExtractedAnswer(benchmark) ]),
              ground_truth |-> Append(truth, [ src |-> i, val |-> example.answer ]),
              warned |-> FALSE ]

\* sklearn accuracy_score(y_true, y_pred): lists of different length are
\* rejected; two empty lists give nan (0/0).
accuracy_score(truth, preds) ==
    IF Len(truth) # Len(preds)
    THEN [ raised |-> TRUE, value |-> Frac(0, 0) ]
    ELSE [ raised |-> FALSE,
           value |-> Frac(Cardinality({ i \in 1..Len(preds) : truth[i].val = preds[i].val }),
                          Len(preds)) ]

\* np.percentile(scores, q) with linear interpolation; q in 1/1000, the
\* result in 1/1000 of the score unit.
percentile(scores, q) ==
    LET sorted == SortSeq(scores, <)
        pos == (Len(sorted) - 1) * q
        lo == (pos \div 1000) + 1
        hi == IF lo < Len(sorted) THEN lo + 1 ELSE lo
    IN  1000 * sorted[lo] + (pos % 1000) * (sorted[hi] - sorted[lo])

\* The (lower, upper) pairs _bootstrap_confidence_interval can return:
\* n_bootstrap resamples of n indices drawn with replacement, the accuracy
\* of each resample, then the alpha/2 and 1 - alpha/2 percentiles.  With no
\* sample every score is nan and so is the interval.
bootstrap_confidence_interval(truth, preds) ==
    LET n == Len(truth)
        hits(indices) ==
            Cardinality({ j \in 1..n : truth[indices[j]].val = preds[indices[j]].val })
        counts == { hits(indices) : indices \in [ 1..n -> 1..n ] }
        alpha == 1000 - confidence_level
    IN  IF n = 0
        THEN { << Frac(0, 0), Frac(0, 0) >> }
        ELSE { << Frac(percentile(scores, alpha \div 2), 1000 * n),
                  Frac(percentile(scores, 1000 - alpha \div 2), 1000 * n) >> :
               scores \in [ 1..n_bootstrap -> counts ] }

\* The key of baseline_results each benchmark reads, and the default of
\* its .get(): 'few_shot' / 0.65, 'few_shot' / 0.548, 'baseline' / 0.589.
baseline_key(benchmark) ==
    CASE benchmark = "gsm8k" -> "few_shot"
      [] benchmark = "hotpotqa" -> "few_shot"
      [] benchmark = "strategyqa" -> "baseline"

baseline_default(benchmark) ==
    CASE benchmark = "gsm8k" -> 650
      [] benchmark = "hotpotqa" -> 548
      [] benchmark = "strategyqa" -> 589

\* The effect size read against the other key of baseline_results (a mutant).
effect_baseline_key_other(benchmark) ==
    IF baseline_key(benchmark) = "few_shot" THEN "baseline" ELSE "few_shot"

\* The key the _cohens_d call reads: the one of the _significance_test call.
effect_baseline_key(benchmark) == baseline_key(benchmark)

\* baseline_results.get(key, default)
DictGet(d, key, default) == IF key \in DOMAIN d THEN d[key] ELSE default

\* The baseline_results arguments: no key, or both keys.
BaselineResults ==
    { EmptyDict,
      [ k \in { "few_shot", "baseline" } |-> IF k = "few_shot" THEN 670 ELSE 500 ] }

\* A score (a fraction) in 1/1000
Milli(x) == (x.num * 1000) \div x.den

\* statistical_significance = p_value < 0.01, the level in 1e-6
significance_level == 10000

\* p_value, statistical_significance and effect_size of a BenchmarkResult
\* whose primary score is `score`; a nan score gives nan, False, nan.
statistics(benchmark, score, baseline_results) ==
    IF score.den = 0
    THEN [ p_value |-> NaNP, statistical_significance |-> FALSE,
           effect_size |-> NaNEffect ]
    ELSE LET p_value ==
                 significance_test(Milli(score),
                     DictGet(baseline_results, baseline_key(benchmark),
                             baseline_default(benchmark)))
             effect_size ==
                 cohens_d(Milli(score),
                     DictGet(baseline_results, effect_baseline_key(benchmark),
                             baseline_default(benchmark)))
         IN  [ p_value |-> p_value,
               statistical_significance |-> PBelow(p_value, significance_level),
               effect_size |-> [ nan |-> FALSE, value |-> effect_size ] ]

\* BenchmarkResult(...)
Package(benchmark, score, ci, sample_size, baseline_results) ==
    LET st == statistics(benchmark, score, baseline_results)
    IN  [ raised |-> FALSE, error |-> "", accuracy |-> score,
          confidence_interval |-> ci, sample_size |-> sample_size,
          p_value |-> st.p_value,
          statistical_significance |-> st.statistical_significance,
          effect_size |-> st.effect_size,
          baseline_comparison |-> baseline_results ]

\* The evaluation left by an exception: no BenchmarkResult.
Raised(error, sample_size) ==
    [ raised |-> TRUE, error |-> error, accuracy |-> Frac(0, 0),
      confidence_interval |-> << Frac(0, 0), Frac(0, 0) >>,
      sample_size |-> sample_size,
      p_value |-> NaNP, statistical_significance |-> FALSE,
      effect_size |-> NaNEffect, baseline_comparison |-> EmptyDict ]

\* The statistics and the packaging that follow the loop.
\*   GSM8K, StrategyQA: accuracy_score, _bootstrap_confidence_interval,
\*     BenchmarkResult(sample_size=len(predictions)).
\*   HotPotQA: the F1 of each zip(predictions, ground_truth) pair (0.0 from
\*     _compute_f1_text), their mean, _bootstrap_confidence_interval_f1.
\* The result is the set of outcomes the random resampling allows.
aggregate(benchmark, truth, preds, baseline_results) ==
    IF benchmark = "hotpotqa"
    THEN LET k == IF Len(preds) < Len(truth) THEN Len(preds) ELSE Len(truth)
         IN  IF k = 0
             THEN { Raised("ValueError: no samples", Len(preds)) }
             ELSE { Package(benchmark, Frac(0, k),
                            << Frac(0, 1000 * k), Frac(0, 1000 * k) >>,
                            Len(preds), baseline_results) }
    ELSE LET acc == accuracy_score(truth, preds)
         IN  IF acc.raised
             THEN { Raised("ValueError: inconsistent lengths", Len(preds)) }
             ELSE { Package(benchmark, acc.value, ci, Len(preds), baseline_results) :
                    ci \in bootstrap_confidence_interval(truth, preds) }

NoResult ==
    [ raised |-> FALSE, error |-> "", accuracy |-> Frac(0, 0),
      confidence_interval |-> << Frac(0, 0), Frac(0, 0) >>, sample_size |-> 0,
      p_value |-> NaNP, statistical_significance |-> FALSE,
      effect_size |-> NaNEffect, baseline_comparison |-> EmptyDict ]

\* evaluate_<benchmark>(model, dataset_path, baselines): the dataset is
\* loaded and the two lists start empty.
StartEvaluation(benchmark, dataset, baseline_results) ==
    /\ evPc = "idle"
    /\ evPc' = "loop"
    /\ evBenchmark' = benchmark
    /\ evDataset' = dataset
    /\ evPos' = 1
    /\ predictions' = << >>
    /\ ground_truth' = << >>
    /\ evWarnings' = << >>
    /\ evResult' = NoResult
    /\ evBaselines' = baseline_results
    /\ UNCHANGED OtherThanEvaluation

\* One iteration of the per-example loop.
ProcessExample ==
    /\ evPc = "loop"
    /\ evPos <= Len(evDataset)
    /\ LET r == loop_body(evBenchmark, evPos, evDataset[evPos], predictions, ground_truth)
       IN  /\ predictions' = r.predictions
           /\ ground_truth' = r.ground_truth
           /\ evWarnings' = IF r.warned THEN Append(evWarnings, evPos) ELSE evWarnings
    /\ evPos' = evPos + 1
    /\ UNCHANGED << evPc, evBenchmark, evDataset, evResult, evBaselines >>
    /\ UNCHANGED OtherThanEvaluation

\* The loop is over: statistics, then return the BenchmarkResult or raise.
Aggregate ==
    /\ evPc = "loop"
    /\ evPos > Len(evDataset)
    /\ \E r \in aggregate(evBenchmark, ground_truth, predictions, evBaselines) :
          /\ evResult' = r
          /\ evPc' = IF r.raised THEN "raised" ELSE "returned"
    /\ UNCHANGED << evBenchmark, evDataset, evPos, predictions, ground_truth, evWarnings,
                    evBaselines >>
    /\ UNCHANGED OtherThanEvaluation

\* The caller has the result (or the exception); the evaluator is idle again.
FinishEvaluation ==
    /\ evPc \in { "returned", "raised" }
    /\ evPc' = "idle"
    /\ evBenchmark' = "gsm8k"
    /\ evDataset' = << >>
    /\ evPos' = 1
    /\ predictions' = << >>
    /\ ground_truth' = << >>
    /\ evWarnings' = << >>
    /\ evResult' = NoResult
    /\ evBaselines' = EmptyDict
    /\ UNCHANGED OtherThanEvaluation

(***************************************************************************)
(* AcademicDSPyEvaluator.conduct_ablation_study                            *)
(*                                                                         *)
(* A model is the set of components it runs with.  _evaluate_on_dataset    *)
(* and _create_ablated_model are called but not defined in the class:      *)
(* either returns or raises, as the collaborator decides.                  *)
(***************************************************************************)
ComponentNames == { "retriever", "reasoner", "optimizer" }

ComponentLists == SeqsUpTo(ComponentNames, MaxComponents)

Accuracies == { 65, 85 }

BaseModel == ComponentNames

\* f'without_{component}' and 'full_model' as dictionary keys
FullModelKey == << "full_model", "" >>

\* The key written without the f-prefix: one literal key (a mutant).
WithoutKeyLiteral(component) == << "without_", "{component}" >>

WithoutKey(component) == << "without_", component >>

\* results[key] = result
DictSet(d, key, value) ==
    [ k \in (DOMAIN d) \cup { key } |-> IF k = key THEN value ELSE d[k] ]

\* The dataset names a study is run on.
AblationDatasets == { "mock_dataset", "gsm8k" }

\* _create_ablated_model(base_model, component)
create_ablated_model(base_model, component) == base_model \ { component }

\* _evaluate_on_dataset(model, dataset): the results it may return
evaluate_on_dataset(model, dataset) ==
    { [ model |-> model, dataset |-> dataset, accuracy |-> a ] : a \in Accuracies }

\* One call of _evaluate_on_dataset as the call log keeps it: the arguments
\* and, unless the call raised, the result.
EvaluateCall(model, dataset, result) ==
    [ model |-> model, dataset |-> dataset, result |-> result ]

\* Deriving each variant from the variant evaluated before it (a mutant).
ablation_source_chained(base_model, calls) == calls[Len(calls)].model

\* The model every variant is derived from: the base_model argument (line
\* 264), whatever was evaluated last.

ablation_source(base_model, calls) == base_model

\* conduct_ablation_study up to the loop: results = {}, the base model is
\* evaluated and stored under 'full_model'.
StartAblation(components, dataset, outcome) ==
    /\ ablPc = "idle"
    /\ ablComponents' = components
    /\ ablDataset' = dataset
    /\ ablPos' = 1
    /\ IF outcome = "ok"
       THEN \E r \in evaluate_on_dataset(BaseModel, dataset) :
               /\ ablResults' = DictSet(EmptyDict, FullModelKey, r)
               /\ ablCalls' = << EvaluateCall(BaseModel, dataset, << r >>) >>
               /\ ablPc' = "loop"
       ELSE /\ ablResults' = EmptyDict
            /\ ablCalls' = << EvaluateCall(BaseModel, dataset, << >>) >>
            /\ ablPc' = "raised"
    /\ UNCHANGED OtherThanAblation

\* One iteration of `for component in components`.
AblateComponent(outcome) ==
    /\ ablPc = "loop"
    /\ ablPos <= Len(ablComponents)
    /\ LET component == ablComponents[ablPos]
           ablated_model ==
               create_ablated_model(ablation_source(BaseModel, ablCalls), component)
       IN  CASE outcome = "ok" ->
                  \E r \in evaluate_on_dataset(ablated_model, ablDataset) :
                     /\ ablResults' = DictSet(ablResults, WithoutKey(component), r)
                     /\ ablCalls' = Append(ablCalls,
                                           EvaluateCall(ablated_model, ablDataset, << r >>))
                     /\ ablPc' = "loop"
                     /\ ablPos' = ablPos + 1
             [] outcome = "create_raises" ->
                  /\ ablPc' = "raised"
                  /\ UNCHANGED << ablResults, ablCalls, ablPos >>
             [] outcome = "evaluate_raises" ->
                  /\ ablPc' = "raised"
                  /\ ablCalls' = Append(ablCalls,
                                        EvaluateCall(ablated_model, ablDataset, << >>))
                  /\ UNCHANGED << ablResults, ablPos >>
    /\ UNCHANGED << ablComponents, ablDataset >>
    /\ UNCHANGED OtherThanAblation

\* return results
ReturnAblation ==
    /\ ablPc = "loop"
    /\ ablPos > Len(ablComponents)
    /\ ablPc' = "returned"
    /\ UNCHANGED << ablComponents, ablPos, ablResults, ablCalls, ablDataset >>
    /\ UNCHANGED OtherThanAblation

\* The caller has the mapping (or the exception).
FinishAblation ==
    /\ ablPc \in { "returned", "raised" }
    /\ ablPc' = "idle"
    /\ ablComponents' = << >>
    /\ ablPos' = 1
    /\ ablResults' = EmptyDict
    /\ ablCalls' = << >>
    /\ UNCHANGED ablDataset
    /\ UNCHANGED OtherThanAblation

(***************************************************************************)
(* AcademicDSPyEvaluator.generate_academic_report                          *)
(*                                                                         *)
(* Scores are in 1/1000.  The text is kept as the list of its parts: the   *)
(* header, per result its section and one line per baseline, and the       *)
(* closing methodology section.                                            *)
(***************************************************************************)
ReportAccuracies == { 0, 850 }

BaselineNames == { "zero_baseline", "GPT-4" }

BaselineScores == { 0, 700 }

\* baseline_comparison: a dictionary, iterated in insertion order.
BaselineComparisons ==
    { b \in SeqsUpTo([ name : BaselineNames, score : BaselineScores ],
                     Cardinality(BaselineNames)) :
        \A i, j \in 1..Len(b) : b[i].name = b[j].name => i = j }

ReportedResults ==
    [ benchmark_name : { "GSM8K Mathematical Reasoning" },
      accuracy : ReportAccuracies,
      baseline_comparison : BaselineComparisons ]

ReportInputs == SeqsUpTo(ReportedResults, MaxResults)

\* n / d rounded to the nearest integer (d > 0)
RoundDiv(n, d) == (2 * n + d) \div (2 * d)

\* ((result.accuracy - baseline_score) / baseline_score) * 100, as the
\* ':+.1f' format prints it (in tenths of a percent); the division of two
\* Python floats raises ZeroDivisionError on a zero divisor.
improvement(accuracy, baseline_score) ==
    IF baseline_score = 0
    THEN [ raised |-> TRUE, value |-> 0 ]
    ELSE [ raised |-> FALSE,
           value |-> RoundDiv((accuracy - baseline_score) * 1000, baseline_score) ]

\* for baseline_name, baseline_score in result.baseline_comparison.items()
RECURSIVE baseline_lines(_, _, _)
baseline_lines(result, i, text) ==
    IF i > Len(result.baseline_comparison)
    THEN [ raised |-> FALSE, text |-> text ]
    ELSE LET b == result.baseline_comparison[i]
             imp == improvement(result.accuracy, b.score)
         IN  IF imp.raised
             THEN [ raised |-> TRUE, text |-> text ]
             ELSE baseline_lines(result, i + 1,
                                 Append(text, << "vs", b.name, imp.value >>))

\* report = header
StartReport(results) ==
    /\ repPc = "idle"
    /\ repPc' = "loop"
    /\ repResults' = results
    /\ repPos' = 1
    /\ report' = << << "header" >> >>
    /\ UNCHANGED OtherThanReport

\* One iteration of `for benchmark_name, result in results.items()`.
ReportResult ==
    /\ repPc = "loop"
    /\ repPos <= Len(repResults)
    /\ LET result == repResults[repPos]
           section == << "result", result.benchmark_name, result.accuracy >>
           r == baseline_lines(result, 1, Append(report, section))
       IN  IF r.raised
           THEN /\ repPc' = "raised"
                /\ report' = << >>
                /\ UNCHANGED repPos
           ELSE /\ repPc' = "loop"
                /\ report' = r.text
                /\ repPos' = repPos + 1
    /\ UNCHANGED repResults
    /\ UNCHANGED OtherThanReport

\* report += methodology; return report
ReturnReport ==
    /\ repPc = "loop"
    /\ repPos > Len(repResults)
    /\ repPc' = "returned"
    /\ report' = Append(report, << "methodology" >>)
    /\ UNCHANGED << repResults, repPos >>
    /\ UNCHANGED OtherThanReport

\* The caller has the text (or the exception).
FinishReport ==
    /\ repPc \in { "returned", "raised" }
    /\ repPc' = "idle"
    /\ repResults' = << >>
    /\ repPos' = 1
    /\ report' = << >>
    /\ UNCHANGED OtherThanReport

(***************************************************************************)
(* DSPyParameterOptimizer: optimize_temperature and the optimization trace *)
(*                                                                         *)
(* Temperatures are in 1e-8.  The value of an objective at a temperature   *)
(* is fixed by validation_data; what the search needs of it is where it    *)
(* is smallest, so validation_data is given as the temperature that        *)
(* minimizes each objective, and the objective value as the distance to    *)
(* it.                                                                     *)
(***************************************************************************)
Objectives == { "ece", "brier", "nll" }

ObjectiveNames == Objectives \cup { "mse" }

\* The validation data: the temperature that minimizes each objective on
\* it, one below every range, one inside, one above.
Landscape(objective) ==
    CASE objective = "ece" -> 5000000
      [] objective = "brier" -> 80000000
      [] objective = "nll" -> 300000000
      [] OTHER -> 0

\* DSPyParameterOptimizer(bounds): the table, or a caller's own range.
OptimizerBounds ==
    { [ temperature_min |-> temperature_min, temperature_max |-> temperature_max ],
      [ temperature_min |-> 50000000, temperature_max |-> 100000000 ],
      [ temperature_min |-> 200000000, temperature_max |-> 10000000 ] }

\* The else branch of objective_function never raising (a mutant).
objective_never_raises(objective) == FALSE

\* objective_function(temperature) raises ValueError for an objective
\* other than ece, brier and nll.
objective_raises(objective) == objective \notin Objectives

objective_function(landscape, temperature) == Abs(temperature - landscape)

\* golden_mean * d, golden_mean = 0.5 * (3 - sqrt(5)) = 0.382
GoldenStep(d) == (d \div 1000) * 382

\* A step of the full width of the interval, past its end (a mutant).
next_trial_unbounded(a, b, xf) == xf + (b - a) + 1

\* The golden-section step of the bounded method: from xf into the larger
\* of the two parts of [a, b].
next_trial(a, b, xf) ==
    IF 2 * xf >= a + b
    THEN xf - GoldenStep(xf - a)
    ELSE xf + GoldenStep(b - xf)

\* The loop of scipy's bounded scalar minimization, k steps of it: evaluate
\* the next trial point, keep the better point as xf and shrink [a, b].
RECURSIVE bounded_search(_, _, _, _, _, _, _)
bounded_search(landscape, a, b, xf, fx, k, trials) ==
    LET x == next_trial(a, b, xf)
        fu == objective_function(landscape, x)
    IN  IF k = 0 \/ x = xf
        THEN [ x |-> xf, fun |-> fx, trials |-> trials ]
        ELSE IF fu <= fx
             THEN bounded_search(landscape,
                                 IF x >= xf THEN xf ELSE a,
                                 IF x >= xf THEN b ELSE xf,
                                 x, fu, k - 1, Append(trials, x))
             ELSE bounded_search(landscape,
                                 IF x < xf THEN x ELSE a,
                                 IF x < xf THEN b ELSE x,
                                 xf, fx, k - 1, Append(trials, x))

\* minimize_scalar(objective_function, bounds=(x1, x2), method='bounded'):
\* x1 > x2 is rejected; the first trial point is x1 + golden_mean * (x2 - x1);
\* an exception of objective_function passes through.
minimize_scalar(objective, landscape, x1, x2) ==
    IF x1 > x2
    THEN [ raised |-> TRUE, error |-> "ValueError: bounds", x |-> 0, fun |-> 0,
           trials |-> << >> ]
    ELSE LET fulc == x1 + GoldenStep(x2 - x1)
         IN  IF objective_raises(objective)
             THEN [ raised |-> TRUE, error |-> "ValueError: Unknown objective",
                    x |-> 0, fun |-> 0, trials |-> << >> ]
             ELSE LET r == bounded_search(landscape, x1, x2, fulc,
                                          objective_function(landscape, fulc),
                                          MaxTrials, << fulc >>)
                  IN  [ raised |-> FALSE, error |-> "", x |-> r.x, fun |-> r.fun,
                        trials |-> r.trials ]

\* The trace replaced by its newest record (a mutant).
trace_replace(history, record) == << record >>

\* self.optimization_history.append(record)
trace_append(history, record) == Append(history, record)

\* DSPyParameterOptimizer.optimize_temperature(validation_data, objective)
optimize_temperature(bounds, history, objective, landscape) ==
    LET result == minimize_scalar(objective, landscape,
                                  bounds.temperature_min, bounds.temperature_max)
        optimal_temperature == result.x
    IN  IF result.raised
        THEN [ outcome |-> "raised", error |-> result.error, value |-> << >>,
               trials |-> result.trials, optimization_history |-> history ]
        ELSE [ outcome |-> "ok", error |-> "", value |-> << optimal_temperature >>,
               trials |-> result.trials,
               optimization_history |->
                   trace_append(history,
                                [ parameter |-> "temperature",
                                  optimal_value |-> optimal_temperature,
                                  objective_value |-> result.fun,
                                  objective |-> objective ]) ]

\* The trend read from the first three losses of the history (a mutant).
adaptive_learning_rate_first_three(history, current_lr) ==
    IF Len(history) < 3
    THEN current_lr
    ELSE adaptive_learning_rate(SubSeq(history, 1, 3), current_lr)

\* adaptive_learning_rate as the optimizer's method
adaptive_learning_rate_method(history, current_lr) ==
    adaptive_learning_rate(history, current_lr)

\* Loss values of a direct call: three levels give every trend.
TrendLosses == { 1, 2, 3 }

LossHistories == SeqsUpTo(TrendLosses, MaxLosses)

\* Rates of a direct call: the two bounds, the default, one above the range.
CallRates ==
    { learning_rate_min, learning_rate_default, learning_rate_max, 2 * learning_rate_max }

NoOptCall ==
    [ op |-> "none", objective |-> "", landscape |-> 0, loss_history |-> << >>,
      current_lr |-> 0, outcome |-> "", error |-> "", value |-> << >>,
      trials |-> << >>, before |-> << >> ]

\* DSPyParameterOptimizer(bounds)
NewOptimizer(bounds) ==
    /\ optPc = "idle"
    /\ optBounds' = bounds
    /\ optimization_history' = << >>
    /\ optLog' = << >>
    /\ UNCHANGED << optPc, optCall >>
    /\ UNCHANGED OtherThanOptimizer

\* optimizer.optimize_temperature(validation_data, objective)
OptimizeTemperature(objective, landscape) ==
    /\ optPc = "idle"
    /\ Len(optLog) < MaxTrace
    /\ LET r == optimize_temperature(optBounds, optimization_history, objective, landscape)
       IN  /\ optimization_history' = r.optimization_history
           /\ optLog' = Append(optLog, [ objective |-> objective,
                                         outcome |-> r.outcome, value |-> r.value ])
           /\ optCall' = [ op |-> "optimize_temperature", objective |-> objective,
                           landscape |-> landscape, loss_history |-> << >>,
                           current_lr |-> 0, outcome |-> r.outcome, error |-> r.error,
                           value |-> r.value, trials |-> r.trials,
                           before |-> optimization_history ]
    /\ optPc' = "called"
    /\ UNCHANGED optBounds
    /\ UNCHANGED OtherThanOptimizer

\* optimizer.adaptive_learning_rate(loss_history, current_lr)
AdaptiveLearningRate(history, current_lr) ==
    /\ optPc = "idle"
    /\ optCall' = [ op |-> "adaptive_learning_rate", objective |-> "",
                    landscape |-> 0, loss_history |-> history,
                    current_lr |-> current_lr, outcome |-> "ok", error |-> "",
                    value |-> << adaptive_learning_rate_method(history, current_lr) >>,
                    trials |-> << >>, before |-> optimization_history ]
    /\ optPc' = "called"
    /\ UNCHANGED << optBounds, optimization_history, optLog >>
    /\ UNCHANGED OtherThanOptimizer

\* The caller has the value (or the exception).
ReturnToCaller ==
    /\ optPc = "called"
    /\ optPc' = "idle"
    /\ optCall' = NoOptCall
    /\ UNCHANGED << optBounds, optimization_history, optLog >>
    /\ UNCHANGED OtherThanOptimizer

(***************************************************************************)
(* AcademicDSPyEvaluator._bootstrap_confidence_interval, called directly   *)
(*                                                                         *)
(* Labels and predictions are 0 or 1; confidence levels are in 1/1000; the *)
(* score of a resample is kept as its number of hits (accuracy = hits/n).  *)
(***************************************************************************)
Labels == { 0, 1 }

ConfidenceLevels == { 2, 500, 950, 998 }

\* Non-empty lists of equal length
PairLists ==
    UNION { [ 1..n -> Labels ] \X [ 1..n -> Labels ] : n \in 1..MaxPairs }

NoBootArgs == [ true_labels |-> << >>, predictions |-> << >>, confidence_level |-> 950 ]

NoDraw == [ indices |-> << >>, boot_true |-> << >>, boot_pred |-> << >> ]

\* [list[i] for i in indices]
resample(list, indices) == [ j \in 1..Len(indices) |-> list[indices[j]] ]

\* accuracy_score(boot_true, boot_pred) times n
hits(boot_true, boot_pred) ==
    Cardinality({ j \in 1..Len(boot_true) : boot_true[j] = boot_pred[j] })

\* The two percentiles taken the other way round (a mutant).
percentile_pair_swapped(scores, level) ==
    LET alpha == 1000 - level
    IN  << percentile(scores, 1000 - alpha \div 2), percentile(scores, alpha \div 2) >>

\* alpha = 1 - confidence_level; the alpha/2 and 1 - alpha/2 percentiles
percentile_pair(scores, level) ==
    LET alpha == 1000 - level
    IN  << percentile(scores, alpha \div 2), percentile(scores, 1000 - alpha \div 2) >>

\* bootstrap_scores = []; n_samples = len(true_labels)
StartBootstrap(true_labels, preds, level) ==
    /\ bootPc = "idle"
    /\ bootPc' = "loop"
    /\ bootArgs' = [ true_labels |-> true_labels, predictions |-> preds,
                     confidence_level |-> level ]
    /\ bootDraw' = NoDraw
    /\ bootstrap_scores' = << >>
    /\ bootResult' = << >>
    /\ UNCHANGED OtherThanBootstrap

\* One iteration of `for _ in range(self.n_bootstrap)`: np.random.choice
\* draws n_samples indices with replacement, both lists are read at them,
\* the accuracy of the resample is appended.
DrawResample(indices) ==
    /\ bootPc = "loop"
    /\ Len(bootstrap_scores) < n_bootstrap
    /\ DOMAIN indices = 1..Len(bootArgs.true_labels)
    /\ LET boot_true == resample(bootArgs.true_labels, indices)
           boot_pred == resample(bootArgs.predictions, indices)
       IN  /\ bootDraw' = [ indices |-> indices, boot_true |-> boot_true,
                            boot_pred |-> boot_pred ]
           /\ bootstrap_scores' = Append(bootstrap_scores, hits(boot_true, boot_pred))
    /\ UNCHANGED << bootPc, bootArgs, bootResult >>
    /\ UNCHANGED OtherThanBootstrap

\* ci_lower, ci_upper = the two percentiles of bootstrap_scores
ReturnInterval ==
    /\ bootPc = "loop"
    /\ Len(bootstrap_scores) = n_bootstrap
    /\ LET n == Len(bootArgs.true_labels)
           p == percentile_pair(bootstrap_scores, bootArgs.confidence_level)
       IN  bootResult' = << Frac(p[1], 1000 * n), Frac(p[2], 1000 * n) >>
    /\ bootPc' = "returned"
    /\ UNCHANGED << bootArgs, bootDraw, bootstrap_scores >>
    /\ UNCHANGED OtherThanBootstrap

\* The caller has the interval.
FinishBootstrap ==
    /\ bootPc = "returned"
    /\ bootPc' = "idle"
    /\ bootArgs' = NoBootArgs
    /\ bootDraw' = NoDraw
    /\ bootstrap_scores' = << >>
    /\ bootResult' = << >>
    /\ UNCHANGED OtherThanBootstrap

(***************************************************************************)
(* The two places that bin predictions: the metric loop of                 *)
(* DSPyConfidenceCalibrator.evaluate_calibration and the loop of           *)
(* DSPyCalibrationValidator.reliability_diagram                            *)
(***************************************************************************)
\* in_bin = (predictions >= bin_lower) & (predictions < bin_upper) of
\* reliability_diagram, for the k-th of n_bins bins
diagram_in_bin(data, k, n_bins) ==
    { i \in 1..Len(data) :
        /\ data[i].pred * n_bins >= (k - 1) * GridSteps
        /\ data[i].pred * n_bins < k * GridSteps }

\* np.sum(in_bin) of each bin of the loop of evaluate_calibration
evaluate_bin_counts(data, n_bins) ==
    [ k \in 1..n_bins |-> Cardinality(in_bin(data, k, n_bins)) ]

\* count_in_bin of each bin of the loop of reliability_diagram
diagram_bin_counts(data, n_bins) ==
    [ k \in 1..n_bins |-> Cardinality(diagram_in_bin(data, k, n_bins)) ]

NoBinCall == [ op |-> "none", data |-> << >>, n_bins |-> 1, counts |-> << 0 >> ]

\* The bin loop of evaluate_calibration(predictions, targets, n_bins)
EvaluateBins(data, n_bins) ==
    /\ binCall' = [ op |-> "evaluate_calibration", data |-> data, n_bins |-> n_bins,
                    counts |-> evaluate_bin_counts(data, n_bins) ]
    /\ UNCHANGED OtherThanBinning

\* The bin loop of reliability_diagram(predictions, targets, n_bins)
DiagramBins(data, n_bins) ==
    /\ binCall' = [ op |-> "reliability_diagram", data |-> data, n_bins |-> n_bins,
                    counts |-> diagram_bin_counts(data, n_bins) ]
    /\ UNCHANGED OtherThanBinning

(***************************************************************************)
(* DSPyConfidenceCalibrator with method = 'isotonic'                       *)
(*                                                                         *)
(* fit hands the scores and targets to IsotonicRegression(out_of_bounds=   *)
(* 'clip').fit and predict_proba returns its predict.  The estimator       *)
(* averages the targets of equal scores, pools adjacent violators, and     *)
(* predicts by linear interpolation between the fitted points after        *)
(* clipping the input to the range of the training scores.  Fitted values  *)
(* are exact fractions.                                                    *)
(***************************************************************************)
RECURSIVE SortedSeq(_)
SortedSeq(S) ==
    IF S = {} THEN << >>
    ELSE LET m == CHOOSE x \in S : \A y \in S : x <= y
         IN  << m >> \o SortedSeq(S \ { m })

\* One block per distinct score, in increasing order of the score: the sum
\* and the number of the targets observed at that score.
make_unique(data) ==
    LET xs == SortedSeq({ data[i].pred : i \in 1..Len(data) })
        at(x) == { i \in 1..Len(data) : data[i].pred = x }
    IN  [ k \in 1..Len(xs) |->
            [ lo |-> xs[k], hi |-> xs[k],
              sum |-> SumOver([ i \in 1..Len(data) |-> data[i].target ], at(xs[k])),
              weight |-> Cardinality(at(xs[k])) ] ]

\* Is the mean of block a above the mean of block b.
MeanAbove(a, b) == a.sum * b.weight > b.sum * a.weight

\* No pooling: every score keeps the mean of its own targets (a mutant).
pool_nothing(blocks) == blocks

\* Pool adjacent violators: while a block has a larger mean than the block
\* after it the two are merged; what is left is non-decreasing.
RECURSIVE pool_adjacent_violators(_)
pool_adjacent_violators(blocks) ==
    LET violators == { i \in 1..(Len(blocks) - 1) : MeanAbove(blocks[i], blocks[i + 1]) }
    IN  IF violators = {} THEN blocks
        ELSE LET i == CHOOSE v \in violators : \A w \in violators : v <= w
                 merged == [ lo |-> blocks[i].lo, hi |-> blocks[i + 1].hi,
                             sum |-> blocks[i].sum + blocks[i + 1].sum,
                             weight |-> blocks[i].weight + blocks[i + 1].weight ]
             IN  pool_adjacent_violators(
                     SubSeq(blocks, 1, i - 1) \o << merged >>
                         \o SubSeq(blocks, i + 2, Len(blocks)))

\* IsotonicRegression.fit(X, y): the thresholds are the distinct scores and
\* the value at each is the mean of the pooled block the score lies in.
\* (Dropping the interior points of a constant run, as the estimator does,
\* leaves the interpolant unchanged.)
isotonic_fit(data) ==
    LET xs == SortedSeq({ data[i].pred : i \in 1..Len(data) })
        blocks == pool_adjacent_violators(make_unique(data))
        block(x) == CHOOSE k \in 1..Len(blocks) : blocks[k].lo <= x /\ x <= blocks[k].hi
    IN  [ X_thresholds |-> xs,
          y_thresholds |-> [ k \in 1..Len(xs) |->
                               Frac(blocks[block(xs[k])].sum, blocks[block(xs[k])].weight) ] ]

\* IsotonicRegression.predict(T) for one score: clip to [X_min_, X_max_],
\* then interpolate linearly between the two thresholds around it.
isotonic_predict(f, t) ==
    LET n == Len(f.X_thresholds)
        X_min == f.X_thresholds[1]
        X_max == f.X_thresholds[n]
        c == IF t < X_min THEN X_min ELSE IF t > X_max THEN X_max ELSE t
    IN  IF \E k \in 1..n : f.X_thresholds[k] = c
        THEN f.y_thresholds[CHOOSE k \in 1..n : f.X_thresholds[k] = c]
        ELSE LET k == CHOOSE j \in 1..(n - 1) :
                         f.X_thresholds[j] < c /\ c < f.X_thresholds[j + 1]
                 x1 == f.X_thresholds[k]
                 x2 == f.X_thresholds[k + 1]
                 y1 == f.y_thresholds[k]
                 y2 == f.y_thresholds[k + 1]
             IN  Frac(y1.num * y2.den * (x2 - c) + y2.num * y1.den * (c - x1),
                      y1.den * y2.den * (x2 - x1))

\* The fit of every training sample of the model, computed once and written
\* out as a table (@@ yields an explicit function).
FittedOn ==
    [ data \in { d \in TrainSets : Len(d) > 0 } |-> isotonic_fit(data) ] @@ << >>

NoIsoModel ==
    [ is_fitted |-> FALSE, usable |-> FALSE, fitted_on |-> << >>,
      X_thresholds |-> << >>, y_thresholds |-> << >> ]

NoIsoCall == [ op |-> "none", outcome |-> "", scores |-> << >>, value |-> << >> ]

\* Raw scores handed to predict_proba: the grid and one step beyond each end.
RawScores == (0 - 1)..(GridSteps + 1)

ScorePairs == [ 1..2 -> RawScores ]

\* fit(predictions, targets) of an isotonic calibrator: a new estimator is
\* installed, then fitted (an empty sample is rejected), then is_fitted set.
IsotonicFit(data) ==
    /\ IF Len(data) = 0
       THEN /\ isoModel' = [ is_fitted |-> isoModel.is_fitted, usable |-> FALSE,
                             fitted_on |-> << >>,
                             X_thresholds |-> << >>, y_thresholds |-> << >> ]
            /\ isoCall' = [ op |-> "fit", outcome |-> "raise", scores |-> << >>,
                            value |-> << >> ]
       ELSE /\ isoModel' = [ is_fitted |-> TRUE, usable |-> TRUE, fitted_on |-> data,
                             X_thresholds |-> FittedOn[data].X_thresholds,
                             y_thresholds |-> FittedOn[data].y_thresholds ]
            /\ isoCall' = [ op |-> "fit", outcome |-> "ok", scores |-> << >>,
                            value |-> << >> ]
    /\ UNCHANGED OtherThanIsotonic

\* predict_proba(predictions) of an isotonic calibrator
IsotonicPredict(scores) ==
    /\ isoCall' =
          IF ~ isoModel.is_fitted \/ ~ isoModel.usable
          THEN [ op |-> "predict", outcome |-> "raise", scores |-> scores,
                 value |-> << >> ]
          ELSE [ op |-> "predict", outcome |-> "ok", scores |-> scores,
                 value |-> [ i \in 1..Len(scores) |->
                               isotonic_predict(isoModel, scores[i]) ] ]
    /\ UNCHANGED isoModel
    /\ UNCHANGED OtherThanIsotonic

(***************************************************************************)
(* Specifications: one per component, over the same state                  *)
(***************************************************************************)
vars == << boundsVars, configVars, tuningVars, calVars, evalVars, ablVars, reportVars,
    optVars, bootVars, statVars, binVars, isoVars >>

Init ==
    /\ probe = NoProbe
    /\ cfgStatus = "none"
    /\ cfgArgs = NoArgs
    /\ cfgFields = DefaultFields
    /\ cfgError = << >>
    /\ cfgWarnings = << >>
    /\ cfgReport = << >>
    /\ tuning = "idle"
    /\ lr0 = learning_rate_default
    /\ lr = learning_rate_default
    /\ loss_history = << >>
    /\ method = "platt"
    /\ calibrator = NoEstimator
    /\ is_fitted = FALSE
    /\ everFitted = FALSE
    /\ calCall = NoCall
    /\ evPc = "idle"
    /\ evBenchmark = "gsm8k"
    /\ evDataset = << >>
    /\ evPos = 1
    /\ predictions = << >>
    /\ ground_truth = << >>
    /\ evWarnings = << >>
    /\ evResult = NoResult
    /\ evBaselines = EmptyDict
    /\ ablPc = "idle"
    /\ ablComponents = << >>
    /\ ablPos = 1
    /\ ablResults = EmptyDict
    /\ ablCalls = << >>
    /\ ablDataset = "mock_dataset"
    /\ repPc = "idle"
    /\ repResults = << >>
    /\ repPos = 1
    /\ report = << >>
    /\ optPc = "idle"
    /\ optBounds = [ temperature_min |-> temperature_min,
                     temperature_max |-> temperature_max ]
    /\ optimization_history = << >>
    /\ optLog = << >>
    /\ optCall = NoOptCall
    /\ bootPc = "idle"
    /\ bootArgs = NoBootArgs
    /\ bootDraw = NoDraw
    /\ bootstrap_scores = << >>
    /\ bootResult = << >>
    /\ statCall = NoStatCall
    /\ binCall = NoBinCall
    /\ isoModel = NoIsoModel
    /\ isoCall = NoIsoCall

\* DSPyParameterBounds
NextBounds ==
    \/ \E n \in ParamNames, v \in AllTestValues : ValidateParameter(n, v)
    \/ \E n \in ParamNames, v \in AllTestValues : ClipParameter(n, v)

SpecBounds == Init /\ [][NextBounds]_vars

\* DSPyCalibrationConfig
NextConfig ==
    \/ \E f \in ConfigFieldInputs, val \in BOOLEAN, clip \in BOOLEAN :
          ConstructConfig([ fields |-> f, validate_parameters |-> val,
                            clip_invalid_parameters |-> clip ])
    \/ ValidateParameterBounds
    \/ DiscardConfig

SpecConfig == Init /\ [][NextConfig]_vars

\* DSPyParameterOptimizer.adaptive_learning_rate
NextTuning ==
    \/ \E rate \in StartRates : StartTuning(rate)
    \/ \E loss \in Losses : TuningRound(loss)
    \/ StopTuning

SpecTuning == Init /\ [][NextTuning]_vars

\* DSPyConfidenceCalibrator
NextCalibrator ==
    \/ \E m \in Methods : NewCalibrator(m)
    \/ \E data \in TrainSets : Fit(data)
    \/ \E scores \in ScoreLists : PredictProba(scores)
    \/ \E data \in SampleSets, n_bins \in BinChoices : EvaluateCalibration(data, n_bins)

SpecCalibrator == Init /\ [][NextCalibrator]_vars

\* AcademicDSPyEvaluator: benchmark evaluations
NextEvaluation ==
    \/ \E b \in Benchmarks, d \in Datasets, r \in BaselineResults :
          StartEvaluation(b, d, r)
    \/ ProcessExample
    \/ Aggregate
    \/ FinishEvaluation

SpecEvaluation == Init /\ [][NextEvaluation]_vars

\* AcademicDSPyEvaluator.conduct_ablation_study
NextAblation ==
    \/ \E c \in ComponentLists, d \in AblationDatasets, o \in { "ok", "evaluate_raises" } :
          StartAblation(c, d, o)
    \/ \E o \in { "ok", "create_raises", "evaluate_raises" } : AblateComponent(o)
    \/ ReturnAblation
    \/ FinishAblation

SpecAblation == Init /\ [][NextAblation]_vars

\* AcademicDSPyEvaluator.generate_academic_report
NextReport ==
    \/ \E results \in ReportInputs : StartReport(results)
    \/ ReportResult
    \/ ReturnReport
    \/ FinishReport

SpecReport == Init /\ [][NextReport]_vars

\* DSPyParameterOptimizer
NextOptimizer ==
    \/ \E b \in OptimizerBounds : NewOptimizer(b)
    \/ \E o \in ObjectiveNames : OptimizeTemperature(o, Landscape(o))
    \/ \E h \in LossHistories, r \in CallRates : AdaptiveLearningRate(h, r)
    \/ ReturnToCaller

SpecOptimizer == Init /\ [][NextOptimizer]_vars

\* AcademicDSPyEvaluator._bootstrap_confidence_interval
NextBootstrap ==
    \/ \E lists \in PairLists, level \in ConfidenceLevels :
          StartBootstrap(lists[1], lists[2], level)
    \/ \E n \in 1..MaxPairs : \E indices \in [ 1..n -> 1..n ] : DrawResample(indices)
    \/ ReturnInterval
    \/ FinishBootstrap

SpecBootstrap == Init /\ [][NextBootstrap]_vars

\* AcademicDSPyEvaluator._significance_test, _cohens_d
NextStatistics ==
    \/ \E o \in ScoreValues, b \in ScoreValues : SignificanceTest(o, b)
    \/ \E o \in ScoreValues, b \in ScoreValues : CohensD(o, b)

SpecStatistics == Init /\ [][NextStatistics]_vars

\* The binning of evaluate_calibration and of reliability_diagram
NextBinning ==
    \/ \E data \in SampleSets, n_bins \in BinChoices : EvaluateBins(data, n_bins)
    \/ \E data \in SampleSets, n_bins \in BinChoices : DiagramBins(data, n_bins)

SpecBinning == Init /\ [][NextBinning]_vars

\* DSPyConfidenceCalibrator(method='isotonic')
NextIsotonic ==
    \/ \E data \in TrainSets : IsotonicFit(data)
    \/ \E scores \in ScorePairs : IsotonicPredict(scores)

SpecIsotonic == Init /\ [][NextIsotonic]_vars

(***************************************************************************)
(* Properties                                                              *)
(***************************************************************************)
InRange(n, v) == TableMin(n) <= v /\ v <= TableMax(n)

Clamped(n, v) ==
    IF v < TableMin(n) THEN TableMin(n)
    ELSE IF v > TableMax(n) THEN TableMax(n) ELSE v

Range(seq) == { seq[i] : i \in 1..Len(seq) }

\* C1 as stated: every successfully constructed config has its seven
\* numeric fields within their bounds.
C1_AllConstructedWithinBounds ==
    cfgStatus = "constructed" =>
        \A n \in Declared : InRange(n, cfgFields[n])

\* C1, amended: a config constructed with validate_parameters true has its
\* seven numeric fields within bounds, each field being its argument
\* clamped; with clipping off an out-of-range argument makes construction
\* fail, and only that does; with validate_parameters false the fields are
\* the arguments, unchecked.
C1_ValidatedConfigWithinBounds ==
    LET bad == { n \in Declared : ~ InRange(n, cfgArgs.fields[n]) }
    IN  /\ (cfgStatus = "constructed" /\ cfgArgs.validate_parameters) =>
               /\ \A n \in Declared :
                     /\ InRange(n, cfgFields[n])
                     /\ cfgFields[n] = Clamped(n, cfgArgs.fields[n])
               /\ bad # {} => cfgArgs.clip_invalid_parameters
        /\ (cfgStatus = "constructed" /\ ~ cfgArgs.validate_parameters) =>
               cfgFields = cfgArgs.fields
        /\ cfgStatus = "failed" =>
               /\ cfgArgs.validate_parameters
               /\ ~ cfgArgs.clip_invalid_parameters
               /\ bad # {}
        /\ ( /\ cfgStatus # "none"
             /\ cfgArgs.validate_parameters
             /\ ~ cfgArgs.clip_invalid_parameters
             /\ bad # {} ) => cfgStatus = "failed"

\* Scenario C: temperature=-1.0 with clipping gives temperature 0.1.
C1_Witness ==
    /\ cfgStatus = "constructed"
    /\ cfgArgs.validate_parameters
    /\ cfgArgs.clip_invalid_parameters
    /\ cfgArgs.fields["temperature"] = -100000000
    /\ cfgFields["temperature"] = temperature_min

\* C2: predict_proba on a calibrator on which no fit has returned raises
\* the not-fitted error, returns nothing and leaves is_fitted false.
C2_PredictBeforeFitFails ==
    (calCall.op = "predict" /\ ~ everFitted) =>
        /\ calCall.outcome = "raise"
        /\ calCall.error = "ValueError: not fitted"
        /\ calCall.value = << >>
        /\ ~ is_fitted

\* predict_proba after a fit that raised inside the estimator.
C2_Witness ==
    /\ calCall.op = "predict"
    /\ calCall.outcome = "raise"
    /\ ~ everFitted
    /\ calibrator.kind = "LogisticRegression"

\* C3 as stated: evaluate_calibration on a never-fitted calibrator raises.
C3_EvaluateRequiresFitted ==
    (calCall.op = "evaluate" /\ ~ everFitted) => calCall.outcome = "raise"

\* C3, amended: evaluate_calibration does not look at the fitted state; on
\* a never-fitted calibrator it returns the metrics and leaves the
\* calibrator unfitted.
C3_EvaluateIgnoresFittedState ==
    (calCall.op = "evaluate" /\ ~ everFitted) =>
        /\ calCall.outcome = "ok"
        /\ Len(calCall.value) = 1
        /\ ~ is_fitted

C3_Witness ==
    /\ calCall.op = "evaluate"
    /\ calCall.outcome = "ok"
    /\ ~ everFitted
    /\ calibrator.kind = "None"

\* C4 as stated: whatever the history and the rate passed in, the rate
\* returned lies within [learning_rate_min, learning_rate_max].
C4_ReturnedRateAlwaysWithinBounds ==
    Len(loss_history) >= 1 => InRange("learning_rate", lr)

\* C4, amended: with at least three losses the rate returned lies within
\* the bounds; with fewer it is the rate passed in, unclipped; so a rate
\* fed back stays within bounds if it started there, and is within bounds
\* from the third loss on in any case.
C4_RateWithinBoundsFromThirdLoss ==
    /\ Len(loss_history) >= 3 => InRange("learning_rate", lr)
    /\ Len(loss_history) \in 1..2 => lr = lr0
    /\ (tuning = "running" /\ InRange("learning_rate", lr0)) =>
           InRange("learning_rate", lr)

C4_Witness ==
    /\ Len(loss_history) >= 3
    /\ lr0 = 2 * learning_rate_max
    /\ lr = learning_rate_max

\* C5: validate_parameter returns true exactly for a declared name with
\* min <= value <= max, and false for every other name.
C5_ValidateIffWithinBounds ==
    probe.op = "validate" =>
        probe.ret[1] = (probe.name \in Declared /\ InRange(probe.name, probe.value))

\* Scenario A: validate('temperature', 5.0) is false.
C5_Witness ==
    /\ probe.op = "validate"
    /\ probe.name = "temperature"
    /\ probe.value = 500000000
    /\ probe.ret = << FALSE >>

\* C6: clip_parameter returns the value clamped into [min, max] for a
\* declared name, and the value itself for any other name.
C6_ClipClamps ==
    probe.op = "clip" =>
        IF probe.name \in Declared
        THEN /\ probe.ret[1] = Clamped(probe.name, probe.value)
             /\ InRange(probe.name, probe.ret[1])
             /\ InRange(probe.name, probe.value) => probe.ret[1] = probe.value
        ELSE probe.ret[1] = probe.value

\* Scenario A: clip('temperature', 5.0) is 2.0.
C6_Witness ==
    /\ probe.op = "clip"
    /\ probe.name = "temperature"
    /\ probe.value = 500000000
    /\ probe.ret = << temperature_max >>

\* C7 as stated: for every name, clipping a clipped value changes nothing
\* and the clipped value validates.
C7_ClipIdempotentAndValid ==
    probe.op = "clip" =>
        /\ clip_parameter(probe.name, probe.ret[1]) = probe.ret[1]
        /\ validate_parameter(probe.name, probe.ret[1])

\* C7, amended: clip is idempotent for every name; the clipped value
\* validates exactly when the name is a declared parameter (validate is
\* false for every unknown name).
C7_ClipIdempotentValidIfDeclared ==
    probe.op = "clip" =>
        /\ clip_parameter(probe.name, probe.ret[1]) = probe.ret[1]
        /\ validate_parameter(probe.name, probe.ret[1]) <=> probe.name \in Declared

C7_Witness ==
    /\ probe.op = "clip"
    /\ probe.name = "learning_rate"
    /\ probe.value < learning_rate_min
    /\ probe.ret = << learning_rate_min >>

\* The indices of the examples that went through without an exception.
CleanExamples == SelectSeq([ i \in 1..Len(evDataset) |-> i ],
                           LAMBDA i : evDataset[i].fault = "none")

Sources(list) == [ i \in 1..Len(list) |-> list[i].src ]

\* C8: once the loop is over, the two lists hold exactly the examples that
\* raised nothing, in dataset order; the run does not end in an error
\* while such an example exists; and the sample_size returned is their
\* number.
C8_ExactlyFailedExamplesSkipped ==
    (evPc # "idle" /\ evPos > Len(evDataset)) =>
        /\ Sources(predictions) = CleanExamples
        /\ Sources(ground_truth) = CleanExamples
        /\ evPc = "raised" => CleanExamples = << >>
        /\ evPc = "returned" => evResult.sample_size = Len(CleanExamples)

\* C9: an evaluation that aggregates zero examples ends in an error, and
\* no result returned has sample_size 0 or an interval made from no data.
C9_NoResultFromZeroExamples ==
    /\ (evPc \in { "returned", "raised" } /\ predictions = << >> /\ ground_truth = << >>) =>
           evPc = "raised"
    /\ evPc = "returned" =>
           /\ evResult.sample_size > 0
           /\ evResult.confidence_interval[1].den # 0
           /\ evResult.confidence_interval[2].den # 0

\* C10 as stated: the mapping returned for k components has k + 1 entries.
C10_OneEntryPerListedComponent ==
    ablPc = "returned" =>
        Cardinality(DOMAIN ablResults) = Len(ablComponents) + 1

\* C10, amended: the mapping returned has the key full_model and one key
\* without_<component> per distinct component of the list, and nothing
\* else: d + 1 entries for d distinct names, k + 1 when the k names differ.
C10_OneEntryPerDistinctComponent ==
    ablPc = "returned" =>
        /\ DOMAIN ablResults =
              { << "full_model", "" >> } \cup
              { << "without_", c >> : c \in Range(ablComponents) }
        /\ Cardinality(DOMAIN ablResults) = Cardinality(Range(ablComponents)) + 1

\* Three different components: four entries.
C10_Witness ==
    /\ ablPc = "returned"
    /\ Len(ablComponents) = 3
    /\ Cardinality(DOMAIN ablResults) = 4

\* C11 as stated: a failure while creating or evaluating one ablated variant
\* does not end the study, so the study ends with an exception only if the
\* baseline evaluation itself failed (nothing is stored under full_model).
C11_VariantFailureDoesNotEndStudy ==
    ablPc = "raised" => << "full_model", "" >> \notin DOMAIN ablResults

\* The index of the last occurrence of component c among the first n
\* components.
LastIndexOf(c, n) ==
    CHOOSE i \in 1..n :
        /\ ablComponents[i] = c
        /\ \A j \in (i + 1)..n : ablComponents[j] # c

\* C12: the base model is evaluated first; then, in list order, the variant
\* of the base model without the component is evaluated on the same
\* dataset; full_model holds the first evaluation's result and
\* without_<c> holds the result of evaluating the variant without c.
C12_BaselineFirstVariantsFromBase ==
    ablPc \in { "loop", "returned" } =>
        /\ Len(ablCalls) = ablPos
        /\ ablCalls[1].model = BaseModel
        /\ ablCalls[1].dataset = ablDataset
        /\ ablResults[<< "full_model", "" >>] = ablCalls[1].result[1]
        /\ \A i \in 1..(ablPos - 1) :
              /\ ablCalls[i + 1].model = BaseModel \ { ablComponents[i] }
              /\ ablCalls[i + 1].dataset = ablDataset
              /\ ablResults[<< "without_", ablComponents[i] >>] =
                    ablCalls[LastIndexOf(ablComponents[i], ablPos - 1) + 1].result[1]
              /\ ablResults[<< "without_", ablComponents[i] >>].model =
                    BaseModel \ { ablComponents[i] }

\* A study of three components, the first two different, has returned.
C12_Witness ==
    /\ ablPc = "returned"
    /\ Len(ablComponents) = 3
    /\ ablComponents[1] # ablComponents[2]
    /\ ablDataset = "gsm8k"
    /\ Len(ablCalls) = 4

\* C13 as stated: generate_academic_report never raises, whatever baseline
\* scores (zero included) the results carry.
C13_ReportNeverRaisesOnZeroBaseline ==
    repPc # "raised"

\* C14 as stated: a benchmark evaluation of a non-empty dataset on which the
\* model succeeds for at least one example (here: one example goes through
\* whole) ends by returning a BenchmarkResult, never by raising.
C14_BenchmarkReturnsResult ==
    ( /\ evPc \in { "returned", "raised" }
      /\ \E i \in 1..Len(evDataset) : evDataset[i].fault = "none" )
        => ( evPc = "returned" /\ ~evResult.raised )

\* The invocations of optimize_temperature that returned, in order.
ReturnedInvocations == SelectSeq(optLog, LAMBDA e : e.outcome = "ok")

\* C15 as stated: every invocation of optimize_temperature appends one
\* record, so after n invocations the trace holds n records.
C15_OneRecordPerInvocation ==
    Len(optimization_history) = Len(optLog)

\* C15, amended: the trace is append-only and holds one record per
\* invocation that returned, in invocation order, each with the four keys
\* and with the temperature that invocation returned; an invocation that
\* raises, and a call of adaptive_learning_rate, leave the trace as it was.
C15_OneRecordPerReturnedInvocation ==
    /\ Len(optimization_history) = Len(ReturnedInvocations)
    /\ \A i \in 1..Len(optimization_history) :
          /\ DOMAIN optimization_history[i] =
                { "parameter", "optimal_value", "objective_value", "objective" }
          /\ optimization_history[i].parameter = "temperature"
          /\ optimization_history[i].optimal_value = ReturnedInvocations[i].value[1]
          /\ optimization_history[i].objective = ReturnedInvocations[i].objective
    /\ optPc = "called" =>
          IF optCall.op = "optimize_temperature" /\ optCall.outcome = "ok"
          THEN /\ Len(optimization_history) = Len(optCall.before) + 1
               /\ SubSeq(optimization_history, 1, Len(optCall.before)) = optCall.before
               /\ optimization_history[Len(optimization_history)].optimal_value =
                     optCall.value[1]
          ELSE optimization_history = optCall.before

\* A second invocation has returned and its record follows the first one's.
C15_Witness ==
    /\ optPc = "called"
    /\ optCall.op = "optimize_temperature"
    /\ optCall.outcome = "ok"
    /\ Len(optCall.before) = 1
    /\ Len(optimization_history) = 2
    /\ optimization_history[1].objective # optimization_history[2].objective
    /\ optimization_history[1].optimal_value # optimization_history[2].optimal_value

\* C16: for each of the objectives ece, brier and nll the temperature
\* returned by optimize_temperature, and every trial temperature the
\* objective was evaluated at, lies within [temperature_min,
\* temperature_max] of the optimizer's bounds.
C16_TemperatureWithinOptimizerBounds ==
    ( /\ optPc = "called"
      /\ optCall.op = "optimize_temperature"
      /\ optCall.objective \in { "ece", "brier", "nll" } )
        => /\ \A i \in 1..Len(optCall.trials) :
                 /\ optBounds.temperature_min <= optCall.trials[i]
                 /\ optCall.trials[i] <= optBounds.temperature_max
           /\ \A i \in 1..Len(optCall.value) :
                 /\ optBounds.temperature_min <= optCall.value[i]
                 /\ optCall.value[i] <= optBounds.temperature_max
                 /\ optCall.value[i] \in Range(optCall.trials)

\* A search of several trials under a caller's own range has moved from
\* its first trial point towards the lower bound.
C16_Witness ==
    /\ optPc = "called"
    /\ optCall.op = "optimize_temperature"
    /\ optCall.objective = "ece"
    /\ optCall.outcome = "ok"
    /\ optBounds.temperature_min = 50000000
    /\ Len(optCall.trials) >= 3
    /\ optCall.value[1] < optCall.trials[1]

\* C17: optimize_temperature with an objective other than ece, brier and
\* nll fails with an error, returns no temperature and leaves the
\* optimization trace unchanged.
C17_UnknownObjectiveFails ==
    ( /\ optPc = "called"
      /\ optCall.op = "optimize_temperature"
      /\ optCall.objective \notin { "ece", "brier", "nll" } )
        => /\ optCall.outcome = "raised"
           /\ optCall.error # ""
           /\ optCall.value = << >>
           /\ optimization_history = optCall.before

\* An unknown objective on an optimizer whose trace already has a record.
C17_Witness ==
    /\ optPc = "called"
    /\ optCall.op = "optimize_temperature"
    /\ optCall.objective = "mse"
    /\ optCall.outcome = "raised"
    /\ Len(optimization_history) = 1

\* The rate the trend of the last three losses of h asks for, from rate r:
\* half of r when they strictly increase, r times 1.1 when they strictly
\* decrease, r otherwise.
TrendRate(h, r) ==
    LET n == Len(h)
    IN  IF h[n - 2] < h[n - 1] /\ h[n - 1] < h[n] THEN r \div 2
        ELSE IF h[n - 2] > h[n - 1] /\ h[n - 1] > h[n] THEN (r * 11) \div 10
        ELSE r

\* C20 as stated: adaptive_learning_rate returns current_lr when the
\* history has fewer than 3 losses, and otherwise exactly the rate the
\* trend of the last three losses asks for; the optimizer's state is
\* unchanged.
C20_TrendRuleOnly ==
    (optPc = "called" /\ optCall.op = "adaptive_learning_rate") =>
        /\ optCall.value[1] =
              IF Len(optCall.loss_history) < 3
              THEN optCall.current_lr
              ELSE TrendRate(optCall.loss_history, optCall.current_lr)
        /\ optimization_history = optCall.before

\* C20, amended: with fewer than 3 losses current_lr is returned as it is;
\* otherwise the rate the trend of the last three losses asks for is
\* returned clipped into [learning_rate_min, learning_rate_max]; the
\* optimizer's state is unchanged.
C20_TrendRuleThenClip ==
    (optPc = "called" /\ optCall.op = "adaptive_learning_rate") =>
        /\ optCall.value[1] =
              IF Len(optCall.loss_history) < 3
              THEN optCall.current_lr
              ELSE Clamped("learning_rate",
                           TrendRate(optCall.loss_history, optCall.current_lr))
        /\ optimization_history = optCall.before

\* Four losses of which the first three rise and the last three do not,
\* on an optimizer whose trace has a record: the rate is returned as is.
C20_Witness ==
    /\ optPc = "called"
    /\ optCall.op = "adaptive_learning_rate"
    /\ optCall.loss_history = << 1, 2, 3, 3 >>
    /\ optCall.current_lr = learning_rate_default
    /\ optCall.value = << learning_rate_default >>
    /\ Len(optimization_history) = 1

\* C18: a fit on a calibrator whose method is not platt, isotonic or
\* temperature raises the unknown-method error, keeps is_fitted at its
\* previous value (the calibrator does not become Fitted) and installs no
\* calibrator model.
C18_UnknownMethodFitFails ==
    [][ ( /\ calCall'.op = "fit"
          /\ method \notin { "platt", "isotonic", "temperature" } )
          => /\ calCall'.outcome = "raise"
             /\ calCall'.error = "ValueError: unknown method"
             /\ is_fitted' = is_fitted
             /\ ~ is_fitted'
             /\ calibrator' = calibrator
             /\ calibrator'.kind = "None" ]_vars

\* A fit on a calibrator constructed with method 'sigmoid' has raised.
C18_Witness ==
    /\ calCall.op = "fit"
    /\ calCall.outcome = "raise"
    /\ method = "sigmoid"
    /\ ~ is_fitted
    /\ calibrator = NoEstimator

\* The seven names in the order __post_init__ goes through them.
CheckOrder ==
    << "temperature", "max_tokens", "learning_rate", "max_rounds", "max_examples",
       "reasoning_weight", "tolerance" >>

\* The positions of the out-of-range fields of the constructor's arguments.
Offending == { i \in 1..Len(CheckOrder) : ~ InRange(CheckOrder[i], cfgArgs.fields[CheckOrder[i]]) }

\* C19: a construction with validate_parameters true, clipping off and an
\* out-of-range field fails with an error naming the first offending
\* parameter of the order and its value, and no field was altered.
C19_FirstOffenderNamed ==
    ( /\ cfgStatus # "none"
      /\ cfgArgs.validate_parameters
      /\ ~ cfgArgs.clip_invalid_parameters
      /\ Offending # {} )
        => LET first == CHOOSE i \in Offending : \A j \in Offending : i <= j
           IN  /\ cfgStatus = "failed"
               /\ cfgError = << CheckOrder[first], cfgArgs.fields[CheckOrder[first]] >>
               /\ cfgFields = cfgArgs.fields
               /\ cfgWarnings = << >>

\* Two fields out of range: the error names max_tokens, not tolerance.
C19_Witness ==
    /\ cfgStatus = "failed"
    /\ cfgArgs.validate_parameters
    /\ ~ cfgArgs.clip_invalid_parameters
    /\ ~ InRange("max_tokens", cfgArgs.fields["max_tokens"])
    /\ ~ InRange("tolerance", cfgArgs.fields["tolerance"])
    /\ cfgError[1] = "max_tokens"

\* C21: on non-empty lists of equal length, whatever the confidence level
\* in (0, 1) and the indices drawn, every resample is n index-aligned
\* (label, prediction) pairs drawn with replacement, exactly n_bootstrap
\* resamples are drawn, and the interval returned satisfies
\* 0 <= ci_lower <= ci_upper <= 1.
C21_BootstrapIntervalOrdered ==
    LET n == Len(bootArgs.true_labels)
    IN  /\ bootPc # "idle" =>
              /\ Len(bootstrap_scores) <= n_bootstrap
              /\ \A k \in 1..Len(bootstrap_scores) :
                    0 <= bootstrap_scores[k] /\ bootstrap_scores[k] <= n
        /\ (bootPc = "loop" /\ Len(bootstrap_scores) >= 1) =>
              /\ Len(bootDraw.indices) = n
              /\ Len(bootDraw.boot_true) = n
              /\ Len(bootDraw.boot_pred) = n
              /\ \A j \in 1..n :
                    /\ bootDraw.indices[j] \in 1..n
                    /\ bootDraw.boot_true[j] = bootArgs.true_labels[bootDraw.indices[j]]
                    /\ bootDraw.boot_pred[j] = bootArgs.predictions[bootDraw.indices[j]]
        /\ bootPc = "returned" =>
              /\ Len(bootstrap_scores) = n_bootstrap
              /\ bootResult[1].den = bootResult[2].den
              /\ bootResult[1].den > 0
              /\ 0 <= bootResult[1].num
              /\ bootResult[1].num <= bootResult[2].num
              /\ bootResult[2].num <= bootResult[2].den

\* An interval of different ends has been returned after a resample that
\* drew one index twice.
C21_Witness ==
    /\ bootPc = "returned"
    /\ Len(bootArgs.true_labels) = 2
    /\ bootDraw.indices[1] = bootDraw.indices[2]
    /\ bootResult[1].num < bootResult[2].num

BaselineOf(benchmark, baseline_results) ==
    IF benchmark = "strategyqa"
    THEN IF "baseline" \in DOMAIN baseline_results
         THEN baseline_results["baseline"] ELSE 589
    ELSE IF "few_shot" \in DOMAIN baseline_results
         THEN baseline_results["few_shot"]
         ELSE IF benchmark = "gsm8k" THEN 650 ELSE 548

\* C22: in every BenchmarkResult returned by a benchmark evaluation,
\* statistical_significance is true exactly when p_value < 0.01, and
\* p_value and effect_size are both computed from the returned primary
\* score and one baseline score (the one the benchmark reads from
\* baseline_results, or its default).
C22_SignificanceFollowsPValue ==
    evPc = "returned" =>
        /\ evResult.statistical_significance
              <=> ( ~ evResult.p_value.nan /\ evResult.p_value.hi < 10000 )
        /\ evResult.accuracy.den # 0 =>
              LET observed == (evResult.accuracy.num * 1000) \div evResult.accuracy.den
                  baseline == BaselineOf(evBenchmark, evBaselines)
              IN  /\ evResult.p_value = significance_test(observed, baseline)
                  /\ ~ evResult.effect_size.nan
                  /\ evResult.effect_size.value = cohens_d(observed, baseline)

\* A result returned with a p-value in [0.01, 0.05): not significant at 0.01,
\* from a baseline_results whose two keys hold different scores.
C22_Witness ==
    /\ evPc = "returned"
    /\ evResult.sample_size > 0
    /\ evResult.p_value.lo >= 10000
    /\ evResult.p_value.hi < 50000
    /\ ~ evResult.statistical_significance
    /\ evBaselines # EmptyDict
    /\ evResult.effect_size.value # 0

\* A result returned as significant.
C22_WitnessSignificant ==
    /\ evPc = "returned"
    /\ evResult.statistical_significance

\* C24: for predictions in [0, 1], binary targets and n_bins >= 1, the ECE
\* and the MCE returned by evaluate_calibration both lie within [0, 1] and
\* MCE >= ECE.
C24_EceMceWithinUnitInterval ==
    ( calCall.op = "evaluate" /\ calCall.outcome = "ok" ) =>
        LET m == calCall.value[1]
        IN  /\ m.ece.den > 0
            /\ m.mce.den > 0
            /\ 0 <= m.ece.num
            /\ m.ece.num <= m.ece.den
            /\ 0 <= m.mce.num
            /\ m.mce.num <= m.mce.den
            /\ m.mce.num * m.ece.den >= m.ece.num * m.mce.den

\* An evaluation with 0 < ECE < MCE: two populated bins of different error.
C24_Witness ==
    /\ calCall.op = "evaluate"
    /\ calCall.outcome = "ok"
    /\ calCall.value[1].ece.num > 0
    /\ calCall.value[1].mce.num * calCall.value[1].ece.den
           > calCall.value[1].ece.num * calCall.value[1].mce.den

\* Number of predictions of the sample that fall in some bin.
Binned(call) == SumOver(call.counts, 1..call.n_bins)

\* C25: evaluate_calibration counts every prediction of [0, 1] in exactly
\* one of its n_bins bins (the bin populations sum to the sample), a
\* prediction of exactly 1.0 is counted in the last bin, and
\* reliability_diagram, the other place that bins predictions, puts every
\* prediction in the same bin.
C25_EveryPredictionInOneBinSameRule ==
    /\ binCall.op = "evaluate_calibration" =>
          /\ Binned(binCall) = Len(binCall.data)
          /\ binCall.counts[binCall.n_bins] >=
                 Cardinality({ i \in 1..Len(binCall.data) :
                                 binCall.data[i].pred = GridSteps })
    /\ binCall.op = "reliability_diagram" =>
          binCall.counts = evaluate_bin_counts(binCall.data, binCall.n_bins)

\* Each part on its own: the partition, the last bin, the shared rule.
C25_PopulationsSumToSample ==
    binCall.op = "evaluate_calibration" => Binned(binCall) = Len(binCall.data)

C25_OneFallsInLastBin ==
    binCall.op = "evaluate_calibration" =>
        binCall.counts[binCall.n_bins] >=
            Cardinality({ i \in 1..Len(binCall.data) : binCall.data[i].pred = GridSteps })

C25_SameRuleInDiagram ==
    binCall.op = "reliability_diagram" =>
        binCall.counts = evaluate_bin_counts(binCall.data, binCall.n_bins)

\* C26: a fit with method 'temperature' runs the optimization of the
\* temperature (TemperatureScaling.calibrate, started from 1.0) before the
\* calibrator is fitted, and a later predict_proba divides by the
\* temperature that optimization returned.
C26_TemperatureFitOptimizes ==
    /\ ( method = "temperature" /\ is_fitted ) =>
           /\ calibrator.kind = "TemperatureScaling"
           /\ calibrator.calibrate_calls >= 1
    /\ ( method = "temperature" /\ calCall.op = "predict" /\ calCall.outcome = "ok" ) =>
           /\ calCall.value[1].temperature = calibrator.temperature
           /\ calibrator.calibrate_calls >= 1

\* What the code does: the fitted temperature calibrator holds the initial
\* temperature 1.0, calibrate was never called, and predict_proba divides
\* by 1.0.
C26_TemperatureStaysInitial ==
    ( method = "temperature" /\ is_fitted ) =>
        /\ calibrator.kind = "TemperatureScaling"
        /\ calibrator.temperature = 100
        /\ calibrator.calibrate_calls = 0
        /\ ( calCall.op = "predict" /\ calCall.outcome = "ok" ) =>
               calCall.value[1].temperature = 100

\* p <= q for two fractions of positive denominator
FracLeq(p, q) == p.num * q.den <= q.num * p.den

\* C27: the predict_proba of a calibrator fitted with the isotonic method
\* is monotone non-decreasing: of two raw scores a < b, inside or outside
\* the range of the training scores, f(a) <= f(b).
C27_IsotonicPredictMonotone ==
    ( isoCall.op = "predict" /\ isoCall.outcome = "ok" ) =>
        \A i, j \in 1..Len(isoCall.scores) :
            isoCall.scores[i] < isoCall.scores[j] =>
                FracLeq(isoCall.value[i], isoCall.value[j])

\* Two scores predicted by a calibrator whose training sample had a
\* violator (a higher score with a lower target): the two were pooled.
C27_Witness ==
    /\ isoCall.op = "predict"
    /\ isoCall.outcome = "ok"
    /\ isoCall.scores[1] < isoCall.scores[2]
    /\ \E i, j \in 1..Len(isoModel.fitted_on) :
          /\ isoModel.fitted_on[i].pred < isoModel.fitted_on[j].pred
          /\ isoModel.fitted_on[i].target > isoModel.fitted_on[j].target
          /\ isoCall.scores[1] = isoModel.fitted_on[i].pred
          /\ isoCall.scores[2] = isoModel.fitted_on[j].pred

\* Two scores strictly between and beyond the thresholds, with f(a) < f(b).
C27_WitnessInterpolated ==
    /\ isoCall.op = "predict"
    /\ isoCall.outcome = "ok"
    /\ Len(isoModel.X_thresholds) = 2
    /\ isoModel.X_thresholds[1] < isoCall.scores[1]
    /\ isoCall.scores[1] < isoModel.X_thresholds[2]
    /\ isoCall.scores[2] > isoModel.X_thresholds[2]
    /\ ~ FracLeq(isoCall.value[2], isoCall.value[1])

\* C28: for each of the seven parameters of the bounds table
\* min <= default <= max, the field defaults of DSPyCalibrationConfig equal
\* the table defaults, and a default-constructed config is valid without
\* clipping: no field is changed, no warning logged, nothing raised.
C28_DefaultsWithinBoundsAndShared ==
    /\ \A n \in Declared :
          /\ TableMin(n) <= TableDefault(n)
          /\ TableDefault(n) <= TableMax(n)
          /\ DefaultFields[n] = TableDefault(n)
    /\ ( cfgStatus # "none" /\ cfgArgs.fields = DefaultFields ) =>
          /\ cfgStatus = "constructed"
          /\ cfgFields = DefaultFields
          /\ cfgWarnings = << >>
          /\ cfgError = << >>
          /\ cfgReport # << >> => \A n \in Declared : cfgReport[1][n]

\* A default-constructed config, validated at construction and reported on
\* by validate_parameter_bounds.
C28_Witness ==
    /\ cfgStatus = "constructed"
    /\ cfgArgs.fields = DefaultFields
    /\ cfgArgs.validate_parameters
    /\ ~ cfgArgs.clip_invalid_parameters
    /\ cfgReport # << >>

\* C29: at every iteration boundary and at the end of the per-example loop
\* of each benchmark evaluation, predictions and ground_truth have the same
\* length and their i-th entries come from the same example, whichever
\* examples raised and at whichever step.
C29_ListsAlignedAtEveryBoundary ==
    evPc \in { "loop", "returned", "raised" } =>
        /\ Len(predictions) = Len(ground_truth)
        /\ \A i \in 1..Len(predictions) : predictions[i].src = ground_truth[i].src

\* The alignment holds as long as no example of the dataset lacks its
\* 'answer' key: exceptions of the model call and of the answer extraction
\* are raised before either list is touched.
C29_AlignedWithoutMissingAnswer ==
    ( /\ evPc \in { "loop", "returned", "raised" }
      /\ \A k \in 1..Len(evDataset) : evDataset[k].fault # "answer" ) =>
        /\ Len(predictions) = Len(ground_truth)
        /\ \A i \in 1..Len(predictions) : predictions[i].src = ground_truth[i].src

\* C30: whatever fit and predict_proba calls were made on a calibrator,
\* is_fitted implies that the stored calibrator is the model of the most
\* recent fit that completed: a fitted estimator predict_proba can use,
\* which a fit that raised has left in place.
C30_FittedFlagImpliesFittedModel ==
    is_fitted =>
        /\ calibrator.kind # "None"
        /\ calibrator.usable

\* The part of C30 the code keeps: no fit or predict_proba call clears
\* is_fitted; only a newly constructed calibrator is unfitted.
C30_FlagNeverCleared ==
    [][ ( is_fitted /\ ~ is_fitted' ) => calCall'.op = "none" ]_vars

====
